---- MODULE Spec2Model ----
(***************************************************************************)
(* NVOC privileged GPU control plane: the safety-clamping facade around    *)
(* the vendor management interface (nvml_controller.py), the one-shot      *)
(* elevated helper (helper.py), the pkexec gateway                         *)
(* (privileged_controller.py) and the profile apply orchestration          *)
(* (profiles.py).                                                          *)
(*                                                                         *)
(* Modelling conventions                                                   *)
(*  - The vendor interface (pynvml) is a black box: its state is the       *)
(*    record dev, every write call may fail (no permission / other         *)
(*    error) and every read may fail, as chosen by a fault plan.           *)
(*  - A Python call chain is a transformer of a "world" record w: the      *)
(*    device, the vendor writes issued so far, the pending exception and   *)
(*    the return value.  A raised exception skips every later statement.   *)
(*  - Power is an integer number of milliwatts on the device.  A float of  *)
(*    watts in the program is held as its number of thousandths (128.2 W   *)
(*    is 128200); the model's watts are multiples of 0.1 W, for which      *)
(*    milliwatts / 1000.0 is one-to-one and int(watts * 1000) is           *)
(*    tabulated from IEEE-754 double arithmetic.                           *)
(***************************************************************************)
EXTENDS Integers, Sequences, FiniteSets, TLC

VARIABLES dev, fs, last, ui

vars == <<dev, fs, last, ui>>

(***************************************************************************)
(* Program constants                                                       *)
(***************************************************************************)
MAX_CORE_CLOCK_OFFSET_MHZ == 1500
MAX_MEMORY_CLOCK_OFFSET_MHZ == 4000
MIN_FAN_SPEED_PERCENT == 30
CRITICAL_TEMP_CELSIUS == 90
WARNING_TEMP_CELSIUS == 80
WARNING_MIN_FAN_PERCENT == 70
FAN_FULL_PERCENT == 100
MW_PER_WATT == 1000
DEFAULT_MANUAL_FAN_PERCENT == 50
PKEXEC_DISMISSED == 126
\* config.py, AppConfig safety settings, and the SAFETY NOTES of
\* nvml_controller.py: the limits the documentation states.  No code reads them.
max_core_offset_mhz == 200
max_memory_offset_mhz == 500

(***************************************************************************)
(* Bounds of the model                                                     *)
(***************************************************************************)
MaxFans == 2
MaxFailAt == 4
MaxElevAt == 2
Excess == 1
MaxClock == 3
MaxStale == 1
MaxSeen == 36

(***************************************************************************)
(* Small helpers                                                           *)
(***************************************************************************)
Max(a, b) == IF a >= b THEN a ELSE b
Min(a, b) == IF a <= b THEN a ELSE b

\* Optional[int]
None == [some |-> FALSE, v |-> 0]
Some(x) == [some |-> TRUE, v |-> x]

NoExc == [cls |-> "none", msg |-> ""]
Ok(w) == w.exc.cls = "none"
Raise(w, cls, msg) == [w EXCEPT !.exc = [cls |-> cls, msg |-> msg]]
Return(w, r) == IF Ok(w) THEN [w EXCEPT !.ret = r] ELSE w

Fans == 0 .. (MaxFans - 1)

(***************************************************************************)
(* The vendor interface                                                    *)
(***************************************************************************)
VCall(name, a, b) == [call |-> name, a |-> a, b |-> b]

\* Effect of an accepted vendor write on the device.
ApplyCall(d, c) ==
  CASE c.call = "SetGpcClkVfOffset" -> [d EXCEPT !.core = c.a]
    [] c.call = "SetMemClkVfOffset" -> [d EXCEPT !.mem = c.a]
    [] c.call = "SetPowerManagementLimit" -> [d EXCEPT !.power = c.a]
    [] c.call = "SetFanControlPolicyManual" -> [d EXCEPT !.policy[c.a] = "manual"]
    [] c.call = "SetFanControlPolicyAuto" -> [d EXCEPT !.policy[c.a] = "auto"]
    [] c.call = "SetFanSpeed_v2" -> [d EXCEPT !.speed[c.a] = c.b]
    [] c.call = "ResetGpuLockedClocks" -> [d EXCEPT !.lockMin = 0, !.lockMax = 0]
    [] c.call = "SetGpuLockedClocks" -> [d EXCEPT !.lockMin = c.a, !.lockMax = c.b]
    [] OTHER -> d

FanCalls == {"SetFanControlPolicyManual", "SetFanControlPolicyAuto", "SetFanSpeed_v2"}

\* The vendor interface rejects a fan call for a fan the device does not have.
VendorAccepts(d, c) == c.call \in FanCalls => c.a < d.nfans

\* One vendor write call: it raises when the fault plan makes this call fail
\* or the vendor rejects it; otherwise it takes effect and is logged with the
\* facade instance (owner) that issued it.
VendorWrite(w, c) ==
  IF ~Ok(w) THEN w
  ELSE IF w.n + 1 = w.plan.failAt /\ w.plan.failKind = "noperm"
       THEN [Raise(w, "pynvml.NVMLError_NoPermission", "") EXCEPT !.n = @ + 1]
  ELSE IF w.n + 1 = w.plan.failAt \/ ~VendorAccepts(w.dev, c)
       THEN [Raise(w, "pynvml.NVMLError", "") EXCEPT !.n = @ + 1]
  ELSE [w EXCEPT !.n = @ + 1,
                 !.dev = ApplyCall(@, c),
                 !.log = Append(@, [call |-> c.call, a |-> c.a, b |-> c.b,
                                    owner |-> w.owner]),
                 !.handles = Append(@, w.gpu_index)]

\* except pynvml.NVMLError_NoPermission: raise PermissionError(...)
\* except pynvml.NVMLError as e:        raise NVMLError(f"{what}: {e}")
Translate(w, what) ==
  IF w.exc.cls = "pynvml.NVMLError_NoPermission"
    THEN Raise(w, "PermissionError", "requires root privileges")
  ELSE IF w.exc.cls = "pynvml.NVMLError"
    THEN Raise(w, "NVMLError", what)
  ELSE w

(***************************************************************************)
(* NVMLController: reads                                                   *)
(***************************************************************************)
Broken(w, what) == what \in w.plan.broken

\* get_clock_offsets: each component falls back to 0 when its read fails.
GetClockOffsets(w) ==
  [core_offset_mhz |-> IF Broken(w, "core_offset") THEN 0 ELSE w.dev.core,
   memory_offset_mhz |-> IF Broken(w, "mem_offset") THEN 0 ELSE w.dev.mem]

\* get_gpu_stats: the temperature is a mandatory field, its failure raises.
GetGpuStats(w) ==
  IF Broken(w, "temperature")
    THEN [exc |-> [cls |-> "NVMLError", msg |-> "Failed to get GPU stats"],
          temperature_celsius |-> 0]
    ELSE [exc |-> NoExc, temperature_celsius |-> w.dev.temp]

\* get_power_limits: each reading is milliwatts / 1000.0, the float whose
\* thousandths are the milliwatts read.
GetPowerLimits(w) ==
  IF Broken(w, "power")
    THEN [exc |-> [cls |-> "NVMLError", msg |-> "Failed to get power limits"],
          current_watts |-> 0, min_watts |-> 0, max_watts |-> 0]
    ELSE [exc |-> NoExc,
          current_watts |-> w.dev.power,
          min_watts |-> w.dev.pmin,
          max_watts |-> w.dev.pmax]

\* get_gpu_info: the name/UUID/memory reads are mandatory.
GetGpuInfo(w) ==
  IF Broken(w, "info")
    THEN [exc |-> [cls |-> "NVMLError", msg |-> "Failed to get GPU info"], index |-> 0]
    ELSE [exc |-> NoExc, index |-> w.gpu_index]

\* get_fan_speed: per-fan read, else the legacy read, else 0.
GetFanSpeed(w, fan_index) ==
  IF ~Broken(w, "fan_speed") /\ fan_index < w.dev.nfans THEN w.dev.speed[fan_index]
  ELSE IF ~Broken(w, "fan_speed") /\ w.dev.nfans > 0 THEN w.dev.speed[0]
  ELSE 0

\* get_fan_count: 0 when the read fails.
GetFanCount(w) == IF Broken(w, "fan_count") THEN 0 ELSE w.dev.nfans

(***************************************************************************)
(* NVMLController: writes                                                  *)
(***************************************************************************)
\* max(limits.min_watts, min(watts, limits.max_watts))
ClampPower(watts, limits) == Max(limits.min_watts, Min(watts, limits.max_watts))

\* The multiples of 0.1 W up to 400 W whose product with 1000 falls just below
\* the integer in double arithmetic (128.2 * 1000 = 128199.99999999999).
ProductFallsShort ==
  {32300, 64100, 64600, 65100, 128200, 128700, 129200, 129700, 130200, 130700,
   256400, 256900, 257400, 257900, 258400, 258900, 259400, 259900, 260400,
   260900, 261400, 261900}

\* int(clamped_watts * 1000): the product truncated towards zero.
IntMilliwatts(watts) == IF watts \in ProductFallsShort THEN watts - 1 ELSE watts

\* set_power_limit: constraints re-read, request clamped, written in mW.
SetPowerLimit(w, watts) ==
  IF ~Ok(w) THEN w
  ELSE LET limits == GetPowerLimits(w) IN
    IF limits.exc.cls # "none" THEN [w EXCEPT !.exc = limits.exc]
    ELSE LET clamped_watts == ClampPower(watts, limits)
             milliwatts == IntMilliwatts(clamped_watts)
             w1 == VendorWrite(w, VCall("SetPowerManagementLimit", milliwatts, 0))
         IN Return(Translate(w1, "Failed to set power limit"), <<>>)

\* A clamp that forgets the lower limit.
ClampOffsetAbove(value, max_abs) == Min(value, max_abs)

\* max(-MAX, min(value, MAX))
ClampOffset(value, max_abs) == Max(-max_abs, Min(value, max_abs))

\* A guard that lets the critical temperature itself pass.
ThermalGuardAbove(temperature) == temperature > CRITICAL_TEMP_CELSIUS

\* The thermal guard of set_clock_offsets.
ThermalGuardTrips(temperature) == temperature >= CRITICAL_TEMP_CELSIUS

\* set_clock_offsets: defaults from the current read, clamp, thermal guard
\* on a fresh get_gpu_stats, then the core write and the memory write.
SetClockOffsets(w, core_offset_mhz, memory_offset_mhz) ==
  IF ~Ok(w) THEN w
  ELSE LET current == GetClockOffsets(w)
           core == IF core_offset_mhz.some THEN core_offset_mhz.v
                   ELSE current.core_offset_mhz
           mem == IF memory_offset_mhz.some THEN memory_offset_mhz.v
                  ELSE current.memory_offset_mhz
           safe_core == ClampOffset(core, MAX_CORE_CLOCK_OFFSET_MHZ)
           safe_mem == ClampOffset(mem, MAX_MEMORY_CLOCK_OFFSET_MHZ)
           stats == GetGpuStats(w)
       IN IF stats.exc.cls # "none" THEN [w EXCEPT !.exc = stats.exc]
          ELSE IF ThermalGuardTrips(stats.temperature_celsius)
            THEN Raise(w, "NVMLError", "GPU temperature too high")
          ELSE LET w1 == VendorWrite(w, VCall("SetGpcClkVfOffset", safe_core, 0))
                   w2 == VendorWrite(w1, VCall("SetMemClkVfOffset", safe_mem, 0))
               IN Return(Translate(w2, "Failed to set clock offsets"),
                         <<safe_core, safe_mem>>)

\* A reset that writes the two zeros without going through set_clock_offsets.
ResetClockOffsetsUnguarded(w) ==
  IF ~Ok(w) THEN w
  ELSE Return(Translate(VendorWrite(VendorWrite(w, VCall("SetGpcClkVfOffset", 0, 0)),
                                    VCall("SetMemClkVfOffset", 0, 0)),
                        "Failed to set clock offsets"), <<>>)

\* reset_clock_offsets
ResetClockOffsets(w) == Return(SetClockOffsets(w, Some(0), Some(0)), <<>>)

\* An escalation that lets the critical temperature itself pass.
SafeFanSpeedLateFull(speed_percent, temperature) ==
  LET escalated ==
        IF temperature > CRITICAL_TEMP_CELSIUS THEN FAN_FULL_PERCENT
        ELSE IF temperature >= WARNING_TEMP_CELSIUS
          THEN Max(speed_percent, WARNING_MIN_FAN_PERCENT)
        ELSE speed_percent
  IN Max(MIN_FAN_SPEED_PERCENT, Min(FAN_FULL_PERCENT, escalated))

\* An escalation that lets the warning temperature itself pass.
SafeFanSpeedLateWarning(speed_percent, temperature) ==
  LET escalated ==
        IF temperature >= CRITICAL_TEMP_CELSIUS THEN FAN_FULL_PERCENT
        ELSE IF temperature > WARNING_TEMP_CELSIUS
          THEN Max(speed_percent, WARNING_MIN_FAN_PERCENT)
        ELSE speed_percent
  IN Max(MIN_FAN_SPEED_PERCENT, Min(FAN_FULL_PERCENT, escalated))

\* The temperature escalation and safety minimum of set_fan_speed.
SafeFanSpeed(speed_percent, temperature) ==
  LET escalated ==
        IF temperature >= CRITICAL_TEMP_CELSIUS THEN FAN_FULL_PERCENT
        ELSE IF temperature >= WARNING_TEMP_CELSIUS
          THEN Max(speed_percent, WARNING_MIN_FAN_PERCENT)
        ELSE speed_percent
  IN Max(MIN_FAN_SPEED_PERCENT, Min(FAN_FULL_PERCENT, escalated))

\* set_fan_speed: fresh temperature, escalation, manual policy, speed.
SetFanSpeed(w, speed_percent, fan_index) ==
  IF ~Ok(w) THEN w
  ELSE LET stats == GetGpuStats(w) IN
    IF stats.exc.cls # "none" THEN [w EXCEPT !.exc = stats.exc]
    ELSE LET safe_speed == SafeFanSpeed(speed_percent, stats.temperature_celsius)
             w1 == VendorWrite(w, VCall("SetFanControlPolicyManual", fan_index, 0))
             w2 == VendorWrite(w1, VCall("SetFanSpeed_v2", fan_index, safe_speed))
         IN Return(Translate(w2, "Failed to set fan speed"), <<safe_speed>>)

\* set_fan_auto
SetFanAuto(w, fan_index) ==
  IF ~Ok(w) THEN w
  ELSE Return(Translate(VendorWrite(w, VCall("SetFanControlPolicyAuto", fan_index, 0)),
                        "Failed to set fan to auto"), <<>>)

\* for i in range(fan_count): self.set_fan_speed(speed_percent, fan_index=i)
RECURSIVE FacadeFansSpeedFrom(_, _, _, _)
FacadeFansSpeedFrom(w, speed_percent, i, fan_count) ==
  IF i >= fan_count THEN w
  ELSE FacadeFansSpeedFrom(SetFanSpeed(w, speed_percent, i), speed_percent,
                           i + 1, fan_count)

\* NVMLController.set_all_fans_speed
SetAllFansSpeed(w, speed_percent) ==
  IF ~Ok(w) THEN w
  ELSE Return(FacadeFansSpeedFrom(w, speed_percent, 0, GetFanCount(w)), <<>>)

\* for i in range(fan_count): self.set_fan_auto(fan_index=i)
RECURSIVE FacadeFansAutoFrom(_, _, _)
FacadeFansAutoFrom(w, i, fan_count) ==
  IF i >= fan_count THEN w
  ELSE FacadeFansAutoFrom(SetFanAuto(w, i), i + 1, fan_count)

\* NVMLController.set_all_fans_auto
SetAllFansAuto(w) ==
  IF ~Ok(w) THEN w
  ELSE Return(FacadeFansAutoFrom(w, 0, GetFanCount(w)), <<>>)

\* set_gpu_locked_clocks: (0, 0) resets the lock.
SetGpuLockedClocks(w, min_mhz, max_mhz) ==
  IF ~Ok(w) THEN w
  ELSE LET c == IF min_mhz = 0 /\ max_mhz = 0
                THEN VCall("ResetGpuLockedClocks", 0, 0)
                ELSE VCall("SetGpuLockedClocks", min_mhz, max_mhz)
       IN Return(Translate(VendorWrite(w, c), "Failed to set locked clocks"), <<>>)

\* NVMLController.initialize (run by __enter__)
Initialize(w) ==
  IF Broken(w, "init") THEN Raise(w, "NVMLError", "Failed to initialize NVML") ELSE w

(***************************************************************************)
(* helper.py: the elevated one-shot executor                               *)
(*                                                                         *)
(* A helper process h: its world (a fresh NVMLController on the device and *)
(* the files: crash marker, configuration, profile store), the items       *)
(* printed on stdout, whether it has exited and with which code.           *)
(* A command-line token is [k, v]: a decimal integer ("int"), a decimal    *)
(* with a fraction part such as "250.0" ("float"), or anything else        *)
(* ("junk").                                                               *)
(***************************************************************************)
Tok(k, v) == [k |-> k, v |-> v]

\* int(s) / float(s): ValueError on a string they do not accept.
IntParses(t) == t.k = "int"
FloatParses(t) == t.k \in {"int", "float"}
\* float("250") is 250.0; a "float" token carries its thousandths.
FloatOf(t) == IF t.k = "int" THEN t.v * MW_PER_WATT ELSE t.v

\* print(json.dumps(data))
output_json(h, data) == [h EXCEPT !.stdout = Append(@, data)]

JsonError(message) ==
  [kind |-> "json", success |-> FALSE, error |-> message, fields |-> <<>>]
JsonSuccess(fields) ==
  [kind |-> "json", success |-> TRUE, error |-> "", fields |-> fields]
PlainText == [kind |-> "text", success |-> FALSE, error |-> "", fields |-> <<>>]

\* sys.exit(code): SystemExit is not an Exception, no handler of main stops it.
SysExit(h, code) ==
  IF h.exited THEN h ELSE [h EXCEPT !.exited = TRUE, !.code = code]

\* An output_error that prints the error object and returns.
output_error_returning(h, message) ==
  IF h.exited THEN h ELSE output_json(h, JsonError(message))

\* output_error: the error object, then sys.exit(1).
output_error(h, message) ==
  IF h.exited THEN h ELSE SysExit(output_json(h, JsonError(message)), 1)

\* output_success
output_success(h, fields) ==
  IF h.exited THEN h ELSE output_json(h, JsonSuccess(fields))

\* "with NVMLController() as ctrl: <body>": __enter__ initializes the facade;
\* the facade operations of the body are skipped once an exception is pending.
Enter(h) == Initialize(h.w)

\* The tail of a command function: the with-block has left the world w; the
\* response line is reached only when nothing was raised.
Responds(h, w, fields) ==
  IF ~h.exited /\ Ok(w) THEN output_success([h EXCEPT !.w = w], fields)
  ELSE [h EXCEPT !.w = w]

\* cmd_status: the four reads in their order, then the response.
cmd_status(h) ==
  LET info == GetGpuInfo(h.w)
      stats == GetGpuStats(h.w)
      power == GetPowerLimits(h.w)
      offsets == GetClockOffsets(h.w)
      w0 == Enter(h)
  IN Responds(h,
              IF ~Ok(w0) THEN w0
              ELSE IF info.exc.cls # "none" THEN [w0 EXCEPT !.exc = info.exc]
              ELSE IF stats.exc.cls # "none" THEN [w0 EXCEPT !.exc = stats.exc]
              ELSE IF power.exc.cls # "none" THEN [w0 EXCEPT !.exc = power.exc]
              ELSE w0,
              [gpu |-> info.index,
               temperature |-> stats.temperature_celsius,
               power_limit_current |-> power.current_watts,
               core |-> offsets.core_offset_mhz,
               memory |-> offsets.memory_offset_mhz])

\* cmd_set_power_limit: the response carries the requested watts.
cmd_set_power_limit(h, watts) ==
  Responds(h, SetPowerLimit(Enter(h), watts), [power_limit |-> watts])

\* output_success({"core_offset": actual_core, "memory_offset": actual_mem})
ClockOffsetsResponse(h, w) ==
  Responds(h, w, IF Ok(w) THEN [core_offset |-> w.ret[1], memory_offset |-> w.ret[2]]
                 ELSE <<>>)

\* cmd_set_clock_offsets: the response carries the values the facade returned.
cmd_set_clock_offsets(h, core, mem) ==
  ClockOffsetsResponse(h, SetClockOffsets(Enter(h), Some(core), Some(mem)))

\* cmd_set_locked_clocks
cmd_set_locked_clocks(h, min_mhz, max_mhz) ==
  Responds(h, SetGpuLockedClocks(Enter(h), min_mhz, max_mhz),
           [min_mhz |-> min_mhz, max_mhz |-> max_mhz])

\* cmd_reset_clocks
cmd_reset_clocks(h) == Responds(h, ResetClockOffsets(Enter(h)), <<>>)

\* output_success({"fan_speed": actual, "fan_index": fan_idx})
FanSpeedResponse(h, w, fan_idx) ==
  Responds(h, w, IF Ok(w) THEN [fan_speed |-> w.ret[1], fan_index |-> fan_idx]
                 ELSE <<>>)

\* cmd_set_fan_speed
cmd_set_fan_speed(h, percent, fan_idx) ==
  FanSpeedResponse(h, SetFanSpeed(Enter(h), percent, fan_idx), fan_idx)

\* cmd_set_fan_auto
cmd_set_fan_auto(h, fan_idx) ==
  Responds(h, SetFanAuto(Enter(h), fan_idx), [fan_index |-> fan_idx, mode |-> "auto"])

\* A value of a JSON object's key: absent or null (dict.get gives None), or set.
Unset(x) == ~x.some

\* A method call made on the controller by an apply orchestration (the
\* helper's cmd_apply_profile, ProfileManager.apply_profile) is recorded in
\* w.calls when it is reached.
Called(w, m, a, b) ==
  IF Ok(w) THEN [w EXCEPT !.calls = Append(@, [m |-> m, a |-> a, b |-> b])] ELSE w

\* cmd_apply_profile, "if 'power_limit_watts' in profile and ... is not None"
ProfilePower(w, profile) ==
  IF profile.power_limit_watts.some
    THEN SetPowerLimit(Called(w, "set_power_limit", profile.power_limit_watts, None),
                       profile.power_limit_watts.v)
    ELSE w

\* cmd_apply_profile, "if core is not None or mem is not None"
ProfileHasOffsets(profile) ==
  ~Unset(profile.core_clock_offset_mhz) \/ ~Unset(profile.memory_clock_offset_mhz)

ProfileOffsets(w, profile) ==
  IF ProfileHasOffsets(profile)
    THEN SetClockOffsets(Called(w, "set_clock_offsets", profile.core_clock_offset_mhz,
                                profile.memory_clock_offset_mhz),
                         profile.core_clock_offset_mhz,
                         profile.memory_clock_offset_mhz)
    ELSE w

\* profile.get('fan_speed_percent', 50)
ProfileFanSpeed(profile) ==
  IF profile.fan_speed_percent.some
    THEN profile.fan_speed_percent.v ELSE DEFAULT_MANUAL_FAN_PERCENT

\* cmd_apply_profile, the fan mode: w2 is the world after the offsets step,
\* whose return value goes into the results.
ProfileFans(h, w2, profile) ==
  LET speed == ProfileFanSpeed(profile)
      offsets == ProfileHasOffsets(profile)
      results ==
        [power_limit |-> profile.power_limit_watts,
         core_offset |-> IF offsets /\ Ok(w2) THEN Some(w2.ret[1]) ELSE None,
         memory_offset |-> IF offsets /\ Ok(w2) THEN Some(w2.ret[2]) ELSE None,
         fan_mode |-> IF profile.fan_mode \in {"auto", "manual"}
                        THEN profile.fan_mode ELSE "",
         fan_speed |-> IF profile.fan_mode = "manual" THEN Some(speed) ELSE None]
  IN Responds(h,
              IF profile.fan_mode = "auto"
                THEN SetAllFansAuto(Called(w2, "set_all_fans_auto", None, None))
              ELSE IF profile.fan_mode = "manual"
                THEN SetAllFansSpeed(Called(w2, "set_all_fans_speed", Some(speed), None),
                                     speed)
              ELSE w2,
              results)

\* cmd_apply_profile: power limit, clock offsets, fan mode/speed, one response.
\* blob.kind: "invalid" (json.loads raises), "nonobject" (valid JSON that is no
\* object: the key test raises TypeError), "object" (the dict blob.d).
cmd_apply_profile(h, blob) ==
  IF blob.kind = "invalid"
    THEN output_error(h, "Invalid JSON")
  ELSE IF blob.kind = "nonobject"
    THEN LET w0 == Enter(h)
         IN [h EXCEPT !.w = IF Ok(w0) THEN Raise(w0, "TypeError", "not a dict") ELSE w0]
  ELSE ProfileFans(h, ProfileOffsets(ProfilePower(Enter(h), blob.d), blob.d), blob.d)

\* config.py: the crash marker file.  Creating and removing it can fail
\* (plan.broken has "touch" / "unlink"); "except IOError" swallows the
\* failure, which w.caught records.
Swallowed(w, what) == [w EXCEPT !.caught = [cls |-> "OSError", msg |-> what]]

\* CRASH_FLAG_FILE.unlink() inside try / except IOError
FlagUnlink(w) ==
  IF Broken(w, "unlink") THEN Swallowed(w, "unlink") ELSE [w EXCEPT !.fs.marker = FALSE]

\* set_applying_flag: CRASH_FLAG_FILE.touch() inside try / except IOError
set_applying_flag(h) ==
  IF Broken(h.w, "touch") THEN [h EXCEPT !.w = Swallowed(@, "touch")]
  ELSE [h EXCEPT !.w.fs.marker = TRUE]

\* A clear_applying_flag that removes nothing.
clear_applying_flag_skipped(h) == h

\* clear_applying_flag: "if CRASH_FLAG_FILE.exists(): CRASH_FLAG_FILE.unlink()"
clear_applying_flag(h) ==
  IF h.w.fs.marker THEN [h EXCEPT !.w = FlagUnlink(@)] ELSE h

\* check_crash_recovery: its return value, and the process after it (the
\* marker it found is unlinked before it returns True).
check_crash_recovery(h) == h.w.fs.marker

\* A crash check that leaves the marker it found.
AfterCrashCheckKeeping(h) == h

AfterCrashCheck(h) ==
  IF h.w.fs.marker THEN [h EXCEPT !.w = FlagUnlink(@)] ELSE h

\* list_profiles() returns the stored profile NAMES (strings).  The search
\* "next((p for p in profiles if p.name == ...), None)" evaluates p.name on
\* the first of them, which raises AttributeError: the search gives None for
\* an empty store and raises for every other store, so the statements that
\* would apply a profile found are never reached.
BootProfileSearchRaises(h) == h.w.fs.profiles # {}

\* main, command apply-boot-profile, from set_applying_flag() on (h1 is the
\* process after it): profile None -> clear, error, return 1;
\* "except Exception as e" -> clear, error, return 1.
BootApplyAttempt(h1) ==
  IF BootProfileSearchRaises(h1)
    THEN SysExit(output_error(clear_applying_flag(h1),
                              "Failed to apply boot profile"), 1)
    ELSE SysExit(output_error(clear_applying_flag(h1), "Boot profile not found"), 1)

\* main, command apply-boot-profile.
apply_boot_profile(h) ==
  IF check_crash_recovery(h)
    THEN SysExit(output_success(AfterCrashCheck(h),
                   [action |-> "boot-apply", status |-> "skipped",
                    reason |-> "crash_recovery"]), 0)
  ELSE IF h.w.fs.boot_profile_name = ""
    THEN SysExit(output_success(h,
                   [action |-> "boot-apply", status |-> "skipped",
                    reason |-> "no_boot_profile"]), 0)
  ELSE BootApplyAttempt(set_applying_flag(h))

Raised(h, cls, msg) == [h EXCEPT !.w = Raise(@, cls, msg)]
ValueError(h) == Raised(h, "ValueError", "invalid literal")

\* The if/elif chain of main: the state when the chain is left, by a return,
\* by sys.exit or with an exception pending in h.w.
Dispatch(h, argv) ==
  LET command == argv.cmd
      a == argv.args
      n == Len(a)
  IN CASE command = "status" -> cmd_status(h)
       [] command = "set-power-limit" ->
            IF n < 1 THEN SysExit(output_error(h, "Usage: set-power-limit"), 1)
            ELSE IF ~FloatParses(a[1]) THEN ValueError(h)
            ELSE cmd_set_power_limit(h, FloatOf(a[1]))
       [] command = "set-clock-offsets" ->
            IF n < 2 THEN SysExit(output_error(h, "Usage: set-clock-offsets"), 1)
            ELSE IF ~IntParses(a[1]) \/ ~IntParses(a[2]) THEN ValueError(h)
            ELSE cmd_set_clock_offsets(h, a[1].v, a[2].v)
       [] command = "set-locked-clocks" ->
            IF n < 2 THEN SysExit(output_error(h, "Usage: set-locked-clocks"), 1)
            ELSE IF ~IntParses(a[1]) \/ ~IntParses(a[2]) THEN ValueError(h)
            ELSE cmd_set_locked_clocks(h, a[1].v, a[2].v)
       [] command = "reset-clocks" -> cmd_reset_clocks(h)
       [] command = "set-fan-speed" ->
            IF n < 1 THEN SysExit(output_error(h, "Usage: set-fan-speed"), 1)
            ELSE IF ~IntParses(a[1]) THEN ValueError(h)
            ELSE IF n > 1 /\ ~IntParses(a[2]) THEN ValueError(h)
            ELSE cmd_set_fan_speed(h, a[1].v, IF n > 1 THEN a[2].v ELSE 0)
       [] command = "set-fan-auto" ->
            IF n > 0 /\ ~IntParses(a[1]) THEN ValueError(h)
            ELSE cmd_set_fan_auto(h, IF n > 0 THEN a[1].v ELSE 0)
       [] command = "apply-profile" ->
            IF n < 1 THEN SysExit(output_error(h, "Usage: apply-profile"), 1)
            ELSE cmd_apply_profile(h, argv.blob)
       [] command = "apply-boot-profile" -> apply_boot_profile(h)
       [] command = "list-profiles" ->
            output_success(h, [profiles |-> h.w.fs.profiles])
       [] command = "list-gpus" ->
            IF Broken(h.w, "init")
              THEN SysExit(output_error(h, "Failed to enumerate GPUs"), 1)
              ELSE output_success(h, [gpu_count |-> 1])
       [] command = "help" ->
            output_success(output_json(h, PlainText), [action |-> "help"])
       [] OTHER -> SysExit(output_error(h, "Unknown command"), 1)

\* main and sys.exit(main()): without a command the usage text and status 1;
\* "except Exception as e: output_error(str(e)); return 1"; else "return 0".
Leave(h1) ==
  IF h1.exited THEN h1
  ELSE IF ~Ok(h1.w) THEN SysExit(output_error(h1, h1.w.exc.msg), 1)
  ELSE SysExit(h1, 0)

main(h, argv) ==
  IF ~argv.given THEN SysExit(output_json(h, PlainText), 1)
  ELSE Leave(Dispatch(h, argv))

(***************************************************************************)
(* privileged_controller.py: the gateway                                   *)
(***************************************************************************)
Argv(cmd, args) ==
  [given |-> TRUE, cmd |-> cmd, args |-> args, blob |-> [kind |-> "invalid"]]
ArgvBlob(cmd, blob) ==
  [given |-> TRUE, cmd |-> cmd, args |-> <<Tok("junk", 0)>>, blob |-> blob]

\* str(a) of an int and of a float argument (str of a float reads back as
\* the same float).
StrInt(v) == Tok("int", v)
StrFloat(v) == Tok("float", v)

\* A fresh helper process started on the device and files of world w.
NewHelper(w) ==
  [w |-> [w EXCEPT !.owner = "helper", !.gpu_index = 0, !.exc = NoExc, !.ret = <<>>],
   stdout |-> <<>>, exited |-> FALSE, code |-> 0]

\* What subprocess.run gives for one pkexec invocation, by what happens to it:
\*   "ok"                the helper runs to its exit
\*   "dismissed"         the user dismisses the dialog: pkexec exits 126
\*   "unauthorized"      pkexec refuses (127), the helper never runs
\*   "crashed"           the helper dies before printing anything
\*   "noisy"             the helper runs, something else is printed before its JSON
\*   "timeout_unstarted" no exit within the timeout, the helper never ran
\*   "timeout_running"   no exit within the timeout, the helper did its work
\*   "not_found"         pkexec is not installed (FileNotFoundError)
\* proc.h is the helper process as it ended (its world carries the device).
SubprocessRun(idle, ran, kind) ==
     CASE kind = "ok" ->
            [h |-> ran, raised |-> "none", returncode |-> ran.code,
             stdout |-> ran.stdout, stderr |-> ""]
       [] kind = "noisy" ->
            [h |-> ran, raised |-> "none", returncode |-> ran.code,
             stdout |-> <<PlainText>> \o ran.stdout, stderr |-> ""]
       [] kind = "dismissed" ->
            [h |-> idle, raised |-> "none", returncode |-> PKEXEC_DISMISSED,
             stdout |-> <<>>, stderr |-> "Request dismissed"]
       [] kind = "unauthorized" ->
            [h |-> idle, raised |-> "none", returncode |-> PKEXEC_DISMISSED + 1,
             stdout |-> <<>>, stderr |-> "Not authorized"]
       [] kind = "crashed" ->
            [h |-> idle, raised |-> "none", returncode |-> 1,
             stdout |-> <<>>, stderr |-> ""]
       [] kind = "timeout_unstarted" ->
            [h |-> idle, raised |-> "TimeoutExpired", returncode |-> 0,
             stdout |-> <<>>, stderr |-> ""]
       [] kind = "timeout_running" ->
            [h |-> ran, raised |-> "TimeoutExpired", returncode |-> 0,
             stdout |-> <<>>, stderr |-> ""]
       [] OTHER ->
            [h |-> idle, raised |-> "FileNotFoundError", returncode |-> 0,
             stdout |-> <<>>, stderr |-> ""]

Spawn(w, argv, kind) == SubprocessRun(NewHelper(w), main(NewHelper(w), argv), kind)

\* json.loads(result.stdout) succeeds on exactly one JSON document.
JsonLoads(stdout) == Len(stdout) = 1 /\ stdout[1].kind = "json"

PCE(w, msg) == Raise(w, "PrivilegedControllerError", msg)

\* An outcome that hands back whatever JSON object the helper printed.
OutcomeTrusting(w, proc) ==
  IF proc.raised = "TimeoutExpired" THEN PCE(w, "Operation timed out")
  ELSE IF proc.raised = "FileNotFoundError" THEN PCE(w, "pkexec not found - install polkit")
  ELSE IF proc.returncode # 0 /\ Len(proc.stdout) = 0
    THEN IF proc.stderr = "Request dismissed" \/ proc.returncode = PKEXEC_DISMISSED
           THEN PCE(w, "Authentication cancelled")
           ELSE PCE(w, IF proc.stderr # "" THEN proc.stderr
                       ELSE "Helper failed with code")
  ELSE IF ~JsonLoads(proc.stdout) THEN PCE(w, "Invalid helper response")
  ELSE [w EXCEPT !.resp = proc.stdout[1].fields]

\* The outcome _run_helper derives from the finished subprocess: the raised
\* PrivilegedControllerError, or the response in w.resp.
Outcome(w, proc) ==
  IF proc.raised = "TimeoutExpired" THEN PCE(w, "Operation timed out")
  ELSE IF proc.raised = "FileNotFoundError" THEN PCE(w, "pkexec not found - install polkit")
  ELSE IF proc.returncode # 0 /\ Len(proc.stdout) = 0
    THEN IF proc.stderr = "Request dismissed" \/ proc.returncode = PKEXEC_DISMISSED
           THEN PCE(w, "Authentication cancelled")
           ELSE PCE(w, IF proc.stderr # "" THEN proc.stderr
                       ELSE "Helper failed with code")
  ELSE IF ~JsonLoads(proc.stdout) THEN PCE(w, "Invalid helper response")
  ELSE IF ~proc.stdout[1].success THEN PCE(w, proc.stdout[1].error)
  ELSE [w EXCEPT !.resp = proc.stdout[1].fields]

\* _run_helper: one pkexec invocation of the helper; the device, the files
\* and the vendor-write log continue from where the helper left them.
Collected(w, proc, kind) ==
  Outcome([w EXCEPT !.spawns = @ + 1, !.dev = proc.h.w.dev, !.fs = proc.h.w.fs,
                    !.log = proc.h.w.log, !.n = proc.h.w.n,
                    !.handles = proc.h.w.handles,
                    !.procs = Append(@, [kind |-> kind,
                                         returncode |-> proc.returncode,
                                         stdout |-> proc.stdout])],
          proc)

\* How the next pkexec invocation of the operation goes.
ElevKind(w) == IF w.spawns + 1 = w.plan.elevAt THEN w.plan.elevKind ELSE "ok"

RunHelper(w, argv) ==
  IF ~Ok(w) THEN w ELSE Collected(w, Spawn(w, argv, ElevKind(w)), ElevKind(w))

\* The gateway's own facade instance.
Reader(w) == [w EXCEPT !.owner = "reader"]
Served(w, r) == [Return(w, r) EXCEPT !.served = @ \cup {"reader"}]

\* Read operations: self._reader.get_*()
GwGetGpuStats(w) ==
  LET stats == GetGpuStats(Reader(w))
  IN IF stats.exc.cls # "none" THEN [w EXCEPT !.exc = stats.exc]
     ELSE Served(w, <<stats.temperature_celsius>>)
GwGetPowerLimits(w) ==
  LET limits == GetPowerLimits(Reader(w))
  IN IF limits.exc.cls # "none" THEN [w EXCEPT !.exc = limits.exc]
     ELSE Served(w, <<limits.current_watts, limits.min_watts, limits.max_watts>>)
GwGetClockOffsets(w) ==
  LET current == GetClockOffsets(Reader(w))
  IN Served(w, <<current.core_offset_mhz, current.memory_offset_mhz>>)
GwGetFanCount(w) == Served(w, <<GetFanCount(Reader(w))>>)
GwGetFanSpeed(w, fan_index) == Served(w, <<GetFanSpeed(Reader(w), fan_index)>>)
GwGetGpuInfo(w) ==
  LET info == GetGpuInfo(Reader(w))
  IN IF info.exc.cls # "none" THEN [w EXCEPT !.exc = info.exc]
     ELSE Served(w, <<info.index>>)

\* Write operations: self._run_helper(...)
GwSetPowerLimit(w, watts) ==
  Return(RunHelper(w, Argv("set-power-limit", <<StrFloat(watts)>>)), <<>>)

\* response.get(key, default)
RespGet(w, key, default) == IF key \in DOMAIN w.resp THEN w.resp[key] ELSE default

\* return (response.get("core_offset", core), response.get("memory_offset", mem))
ActualOffsets(w1, core, mem) ==
  IF Ok(w1) THEN Return(w1, <<RespGet(w1, "core_offset", core),
                              RespGet(w1, "memory_offset", mem)>>)
  ELSE w1

GwSetClockOffsets(w, core_offset_mhz, memory_offset_mhz) ==
  IF ~Ok(w) THEN w
  ELSE LET needs == ~core_offset_mhz.some \/ ~memory_offset_mhz.some
           w0 == IF needs THEN GwGetClockOffsets(w) ELSE w
           core == IF core_offset_mhz.some THEN core_offset_mhz.v ELSE w0.ret[1]
           mem == IF memory_offset_mhz.some THEN memory_offset_mhz.v ELSE w0.ret[2]
       IN ActualOffsets(
            RunHelper(w0, Argv("set-clock-offsets", <<StrInt(core), StrInt(mem)>>)),
            core, mem)

GwResetClockOffsets(w) == Return(RunHelper(w, Argv("reset-clocks", <<>>)), <<>>)

\* return response.get("fan_speed", speed_percent)
ActualFanSpeed(w1, speed_percent) ==
  IF Ok(w1) THEN Return(w1, <<RespGet(w1, "fan_speed", speed_percent)>>) ELSE w1

GwSetFanSpeed(w, speed_percent, fan_index) ==
  ActualFanSpeed(
    RunHelper(w, Argv("set-fan-speed", <<StrInt(speed_percent), StrInt(fan_index)>>)),
    speed_percent)

\* A set_fan_auto that writes through the gateway's own facade instance.
GwSetFanAutoOwnFacade(w, fan_index) == SetFanAuto(Reader(w), fan_index)

GwSetFanAuto(w, fan_index) ==
  Return(RunHelper(w, Argv("set-fan-auto", <<StrInt(fan_index)>>)), <<>>)

\* for i in range(max(1, fan_count)): self.set_fan_speed(speed_percent, fan_index=i)
RECURSIVE GwFansSpeedFrom(_, _, _, _)
GwFansSpeedFrom(w, speed_percent, i, count) ==
  IF i >= count THEN w
  ELSE GwFansSpeedFrom(GwSetFanSpeed(w, speed_percent, i), speed_percent, i + 1, count)

GwSetAllFansSpeed(w, speed_percent) ==
  IF ~Ok(w) THEN w
  ELSE LET w0 == GwGetFanCount(w)
       IN Return(GwFansSpeedFrom(w0, speed_percent, 0, Max(1, w0.ret[1])), <<>>)

\* for i in range(max(1, fan_count)): self.set_fan_auto(fan_index=i)
RECURSIVE GwFansAutoFrom(_, _, _)
GwFansAutoFrom(w, i, count) ==
  IF i >= count THEN w
  ELSE GwFansAutoFrom(GwSetFanAuto(w, i), i + 1, count)

GwSetAllFansAuto(w) ==
  IF ~Ok(w) THEN w
  ELSE LET w0 == GwGetFanCount(w)
       IN Return(GwFansAutoFrom(w0, 0, Max(1, w0.ret[1])), <<>>)

GwSetGpuLockedClocks(w, min_mhz, max_mhz) ==
  Return(RunHelper(w, Argv("set-locked-clocks", <<StrInt(min_mhz), StrInt(max_mhz)>>)),
         <<>>)

\* An apply_profile that switches fan 0 to automatic in an invocation of its
\* own before handing the profile over.
GwApplyProfileInTwo(w, profile_dict) ==
  Return(RunHelper(GwSetFanAuto(w, 0),
                   ArgvBlob("apply-profile", [kind |-> "object", d |-> profile_dict])),
         <<>>)

\* apply_profile: json.dumps(profile_dict) handed to apply-profile.
GwApplyProfile(w, profile_dict) ==
  Return(RunHelper(w, ArgvBlob("apply-profile", [kind |-> "object", d |-> profile_dict])),
         <<>>)

(***************************************************************************)
(* profiles.py: ProfileManager.apply_profile                               *)
(*                                                                         *)
(* controller is the facade itself ("facade": main.py applies the default  *)
(* profile on a bare NVMLController) or the gateway ("gateway": the pages  *)
(* hold a PrivilegedController).  Every method call made on the controller *)
(* is recorded in w.calls.                                                 *)
(***************************************************************************)
CtlSetPowerLimit(ctl, w, watts) ==
  LET w0 == Called(w, "set_power_limit", Some(watts), None)
  IN IF ctl = "gateway" THEN GwSetPowerLimit(w0, watts) ELSE SetPowerLimit(w0, watts)

CtlSetClockOffsets(ctl, w, core, mem) ==
  LET w0 == Called(w, "set_clock_offsets", core, mem)
  IN IF ctl = "gateway" THEN GwSetClockOffsets(w0, core, mem)
     ELSE SetClockOffsets(w0, core, mem)

CtlSetGpuLockedClocks(ctl, w, min_mhz, max_mhz) ==
  LET w0 == Called(w, "set_gpu_locked_clocks", Some(min_mhz), Some(max_mhz))
  IN IF ctl = "gateway" THEN GwSetGpuLockedClocks(w0, min_mhz, max_mhz)
     ELSE SetGpuLockedClocks(w0, min_mhz, max_mhz)

CtlSetAllFansAuto(ctl, w) ==
  LET w0 == Called(w, "set_all_fans_auto", None, None)
  IN IF ctl = "gateway" THEN GwSetAllFansAuto(w0) ELSE SetAllFansAuto(w0)

CtlSetAllFansSpeed(ctl, w, speed_percent) ==
  LET w0 == Called(w, "set_all_fans_speed", Some(speed_percent), None)
  IN IF ctl = "gateway" THEN GwSetAllFansSpeed(w0, speed_percent)
     ELSE SetAllFansSpeed(w0, speed_percent)

\* The power step: skipped when the profile has no power limit.
PowerStep(ctl, w, profile) ==
  IF profile.power_limit_watts.some
    THEN CtlSetPowerLimit(ctl, w, profile.power_limit_watts.v) ELSE w

\* The offsets step: skipped when the profile has neither offset.
OffsetsStep(ctl, w, profile) ==
  IF profile.core_clock_offset_mhz.some \/ profile.memory_clock_offset_mhz.some
    THEN CtlSetClockOffsets(ctl, w, profile.core_clock_offset_mhz,
                            profile.memory_clock_offset_mhz)
    ELSE w

\* A frequency-lock step that is skipped when the profile has no lock.
LockStepSkipping(ctl, w, profile) ==
  IF profile.max_clock_mhz.some /\ profile.max_clock_mhz.v > 0
    THEN CtlSetGpuLockedClocks(ctl, w, 0, profile.max_clock_mhz.v)
    ELSE w

\* The frequency-lock step: the lock when the profile has one, else the reset.
LockStep(ctl, w, profile) ==
  IF profile.max_clock_mhz.some /\ profile.max_clock_mhz.v > 0
    THEN CtlSetGpuLockedClocks(ctl, w, 0, profile.max_clock_mhz.v)
    ELSE CtlSetGpuLockedClocks(ctl, w, 0, 0)

\* The fan step.
FanStep(ctl, w, profile) ==
  IF profile.fan_mode = "auto" THEN CtlSetAllFansAuto(ctl, w)
  ELSE IF profile.fan_mode = "manual" /\ profile.fan_speed_percent.some
    THEN CtlSetAllFansSpeed(ctl, w, profile.fan_speed_percent.v)
  ELSE w

\* An apply that catches the exception and returns True all the same.
ApplyResultAlwaysTrue(w) ==
  IF Ok(w) THEN [w EXCEPT !.status = "True", !.ret = <<>>]
  ELSE [w EXCEPT !.status = "True", !.caught = w.exc, !.exc = NoExc, !.ret = <<>>]

\* "except Exception: log; return False" / "return True"
ApplyResult(w) ==
  IF Ok(w) THEN [w EXCEPT !.status = "True", !.ret = <<>>]
  ELSE [w EXCEPT !.status = "False", !.caught = w.exc, !.exc = NoExc, !.ret = <<>>]

\* ProfileManager.apply_profile
ApplyProfile(w, profile, ctl) ==
  ApplyResult(
    FanStep(ctl,
      LockStep(ctl,
        OffsetsStep(ctl, PowerStep(ctl, w, profile), profile),
        profile),
      profile))

(***************************************************************************)
(* State, fault plans and the operations as actions                        *)
(***************************************************************************)
NoFault ==
  [failAt |-> 0, failKind |-> "error", broken |-> {}, elevAt |-> 0, elevKind |-> "ok"]

\* A vendor write of the operation fails.
WriteFaults ==
  {[NoFault EXCEPT !.failAt = k, !.failKind = f] :
     k \in 1 .. MaxFailAt, f \in {"noperm", "error"}}

\* A vendor read of the operation fails.
ReadFaults ==
  {[NoFault EXCEPT !.broken = {r}] :
     r \in {"core_offset", "mem_offset", "temperature", "power", "fan_count",
            "fan_speed", "info", "init"}}

\* The crash marker file cannot be created, or cannot be removed.
FileFaults == {[NoFault EXCEPT !.broken = {r}] : r \in {"touch", "unlink"}}

ElevKinds ==
  {"dismissed", "unauthorized", "crashed", "noisy", "timeout_unstarted",
   "timeout_running", "not_found"}

\* A pkexec invocation of the operation does not run to a normal exit.
ElevFaults ==
  {[NoFault EXCEPT !.elevAt = k, !.elevKind = e] : k \in 1 .. MaxElevAt, e \in ElevKinds}

NewWorld(owner, plan) ==
  [dev |-> dev, fs |-> fs, ui |-> ui, owner |-> owner, gpu_index |-> 0, plan |-> plan,
   log |-> <<>>, n |-> 0, spawns |-> 0, procs |-> <<>>, served |-> {},
   calls |-> <<>>, exc |-> NoExc, caught |-> NoExc, ret |-> <<>>,
   resp |-> <<>>, status |-> "", bare |-> {}, handles |-> <<>>]

\* What is kept of a completed operation: what was asked (op, via, req) and
\* what came of it in the world w it ended in.
Report(op, via, req, w, stdout, exited, code) ==
  [op |-> op, via |-> via, req |-> req, exc |-> w.exc,
   caught |-> w.caught, ret |-> w.ret, status |-> w.status,
   log |-> w.log, calls |-> w.calls, spawns |-> w.spawns,
   procs |-> w.procs, served |-> w.served, bare |-> w.bare,
   handles |-> w.handles, gpu_index |-> w.gpu_index,
   stdout |-> stdout, exited |-> exited, code |-> code]

Completed(op, via, req, w) == Report(op, via, req, w, <<>>, FALSE, 0)

NoOp ==
  [op |-> "none", via |-> "none", req |-> <<>>, exc |-> NoExc, caught |-> NoExc,
   ret |-> <<>>, status |-> "", log |-> <<>>, calls |-> <<>>, spawns |-> 0,
   procs |-> <<>>, served |-> {}, bare |-> {}, handles |-> <<>>, gpu_index |-> 0,
   stdout |-> <<>>, exited |-> FALSE, code |-> 0]

InitDevice(nfans) ==
  [temp |-> WARNING_TEMP_CELSIUS - 1, core |-> 0, mem |-> 0,
   power |-> 200 * MW_PER_WATT, pmin |-> 100 * MW_PER_WATT, pmax |-> 300 * MW_PER_WATT,
   lockMin |-> 0, lockMax |-> 0, nfans |-> nfans,
   policy |-> [f \in Fans |-> "auto"], speed |-> [f \in Fans |-> 0]]

\* No crash marker, no configured boot profile, no saved profile; the wall
\* clock has not been read.
NoFiles ==
  [marker |-> FALSE, boot_profile_name |-> "", profiles |-> {},
   store |-> [k \in {} |-> <<>>], clock |-> 0, default_profile |-> <<>>]

\* FanState(): the fans are under automatic control and nothing was commanded.
NewFanState ==
  [mode |-> "auto", commanded_speed |-> None, reported_speed |-> None,
   current_temp |-> 0, curve |-> [t \in {} |-> 0]]

\* No FanCurveDaemon runs.  _last_curve_temp and _last_target_speed are
\* attributes a daemon has only once an iteration has set them.  pc is where
\* the daemon's thread stands in _run_loop: there is none, it sleeps in
\* _stop_event.wait, it is ready for the test of the while loop, or it is
\* writing, inside the set_all_fans_speed(pending) of an iteration.
NoDaemon ==
  [running |-> FALSE, last_curve_temp |-> None, last_target_speed |-> None,
   pc |-> "none", pending |-> 0]

\* AppConfig(): the fan settings of the configuration, at their defaults.
DefaultConfig ==
  [min_fan_speed_percent |-> 30, fan_hysteresis_celsius |-> 3,
   fan_ramp_step_percent |-> 5]

\* The fan page as FansPage.__init__ leaves it: selected is the entry of the
\* mode dropdown (0 automatic, 1 manual, 2 custom curve).
\* stale holds the speeds that threads of daemons the page has dropped are
\* still writing.  previous holds the threads that an earlier start() of the
\* present daemon created and its stop() could not join: where each stands
\* (pc) and the speed it is writing (pending).
\* NVMLController.__init__: the peak clock and the rolling buffer of the
\* instance; seen is the history of the core clocks its calls have reported.
NewFacade == [peak_core_clock |-> 0, clock_samples |-> <<>>, seen |-> <<>>]

NoUi ==
  [state |-> NewFanState, daemon |-> NoDaemon, config |-> DefaultConfig,
   selected |-> 0, stale |-> <<>>, previous |-> <<>>, facade |-> NewFacade]

\* ---- environment ----
\* last describes the operation that has just completed on the device as it
\* is; a step of the environment leaves no such operation.
\* The GPU temperature moves.
TempChange(Ts) ==
  /\ \E t \in Ts : dev' = [dev EXCEPT !.temp = t]
  /\ dev'.temp # dev.temp
  /\ ui' = ui
  /\ last' = NoOp
  /\ UNCHANGED fs

\* The hardware reports other power constraints (milliwatts).
ConstraintChange(Cs) ==
  /\ \E c \in Cs : dev' = [dev EXCEPT !.pmin = c[1], !.pmax = c[2]]
  /\ dev' # dev
  /\ ui' = ui
  /\ last' = NoOp
  /\ UNCHANGED fs

\* ---- NVMLController called directly ----
\* Every operation draws its request from the set of requests and its fault
\* plan from the set of plans the specification hands it.
FacadeSetClockOffsets(Rs, Pl) ==
  \E r \in Rs, plan \in Pl :
    \E w \in {SetClockOffsets(NewWorld("direct", plan), r.core, r.mem)} :
      /\ dev' = w.dev
      /\ fs' = w.fs
      /\ ui' = ui
      /\ last' = Completed("set_clock_offsets", "facade", r, w)

FacadeResetClockOffsets(Pl) ==
  \E plan \in Pl :
    \E w \in {ResetClockOffsets(NewWorld("direct", plan))} :
      /\ dev' = w.dev
      /\ fs' = w.fs
      /\ ui' = ui
      /\ last' = Completed("reset_clock_offsets", "facade", <<>>, w)

FacadeSetFanSpeed(Ps, Pl) ==
  \E p \in Ps, f \in Fans, plan \in Pl :
    \E w \in {SetFanSpeed(NewWorld("direct", plan), p, f)} :
      /\ dev' = w.dev
      /\ fs' = w.fs
      /\ ui' = ui
      /\ last' = Completed("set_fan_speed", "facade", [percent |-> p, fan |-> f], w)

FacadeSetFanAuto(Pl) ==
  \E f \in Fans, plan \in Pl :
    \E w \in {SetFanAuto(NewWorld("direct", plan), f)} :
      /\ dev' = w.dev
      /\ fs' = w.fs
      /\ ui' = ui
      /\ last' = Completed("set_fan_auto", "facade", [fan |-> f], w)

FacadeSetAllFansSpeed(Ps, Pl) ==
  \E p \in Ps, plan \in Pl :
    \E w \in {SetAllFansSpeed(NewWorld("direct", plan), p)} :
      /\ dev' = w.dev
      /\ fs' = w.fs
      /\ ui' = ui
      /\ last' = Completed("set_all_fans_speed", "facade", [percent |-> p], w)

FacadeSetPowerLimit(Ws, Pl) ==
  \E watts \in Ws, plan \in Pl :
    \E w \in {SetPowerLimit(NewWorld("direct", plan), watts)} :
      /\ dev' = w.dev
      /\ fs' = w.fs
      /\ ui' = ui
      /\ last' = Completed("set_power_limit", "facade", [watts |-> watts], w)

\* ---- one run of the helper, started directly as root ----
\* last.exited and last.code: whether the process has exited, and its status.
HelperRun(Argvs, Pl) ==
  \E argv \in Argvs, plan \in Pl :
    \E h \in {main(NewHelper(NewWorld("helper", plan)), argv)} :
      /\ dev' = h.w.dev
      /\ fs' = h.w.fs
      /\ ui' = ui
      /\ last' = Report(argv.cmd, "helper", argv, h.w, h.stdout, h.exited, h.code)

\* ---- a boot apply killed between set_applying_flag and clear_applying_flag ----
\* The process is gone before it prints or exits: last.exited stays FALSE.
BootApplyKilled(Pl) ==
  \E plan \in Pl :
    \E h \in {set_applying_flag(NewHelper(NewWorld("helper", plan)))} :
      /\ ~check_crash_recovery(NewHelper(NewWorld("helper", plan)))
      /\ fs.boot_profile_name # ""
      /\ dev' = h.w.dev
      /\ fs' = h.w.fs
      /\ ui' = ui
      /\ last' = Report("apply-boot-profile", "helper", Argv("apply-boot-profile", <<>>),
                        h.w, h.stdout, h.exited, h.code)

\* ---- the user's edits of the configuration and of the profile store ----
BootProfileChange(Names) ==
  /\ \E n \in Names : fs' = [fs EXCEPT !.boot_profile_name = n]
  /\ fs' # fs
  /\ ui' = ui
  /\ last' = NoOp
  /\ UNCHANGED dev

StoreChange(Names) ==
  /\ \E n \in Names :
       fs' = [fs EXCEPT !.profiles = IF n \in @ THEN @ \ {n} ELSE @ \cup {n}]
  /\ ui' = ui
  /\ last' = NoOp
  /\ UNCHANGED dev

\* ---- PrivilegedController ----
GatewaySetClockOffsets(Rs, Pl) ==
  \E r \in Rs, plan \in Pl :
    \E w \in {GwSetClockOffsets(NewWorld("gateway", plan), r.core, r.mem)} :
      /\ dev' = w.dev
      /\ fs' = w.fs
      /\ ui' = ui
      /\ last' = Completed("set_clock_offsets", "gateway", r, w)

GatewayResetClockOffsets(Pl) ==
  \E plan \in Pl :
    \E w \in {GwResetClockOffsets(NewWorld("gateway", plan))} :
      /\ dev' = w.dev
      /\ fs' = w.fs
      /\ ui' = ui
      /\ last' = Completed("reset_clock_offsets", "gateway", <<>>, w)

GatewaySetPowerLimit(Ws, Pl) ==
  \E watts \in Ws, plan \in Pl :
    \E w \in {GwSetPowerLimit(NewWorld("gateway", plan), watts)} :
      /\ dev' = w.dev
      /\ fs' = w.fs
      /\ ui' = ui
      /\ last' = Completed("set_power_limit", "gateway", [watts |-> watts], w)

GatewaySetFanSpeed(Ps, Pl) ==
  \E p \in Ps, f \in Fans, plan \in Pl :
    \E w \in {GwSetFanSpeed(NewWorld("gateway", plan), p, f)} :
      /\ dev' = w.dev
      /\ fs' = w.fs
      /\ ui' = ui
      /\ last' = Completed("set_fan_speed", "gateway", [percent |-> p, fan |-> f], w)

GatewaySetFanAuto(Pl) ==
  \E f \in Fans, plan \in Pl :
    \E w \in {GwSetFanAuto(NewWorld("gateway", plan), f)} :
      /\ dev' = w.dev
      /\ fs' = w.fs
      /\ ui' = ui
      /\ last' = Completed("set_fan_auto", "gateway", [fan |-> f], w)

GatewaySetAllFansSpeed(Ps, Pl) ==
  \E p \in Ps, plan \in Pl :
    \E w \in {GwSetAllFansSpeed(NewWorld("gateway", plan), p)} :
      /\ dev' = w.dev
      /\ fs' = w.fs
      /\ ui' = ui
      /\ last' = Completed("set_all_fans_speed", "gateway", [percent |-> p], w)

GatewaySetAllFansAuto(Pl) ==
  \E plan \in Pl :
    \E w \in {GwSetAllFansAuto(NewWorld("gateway", plan))} :
      /\ dev' = w.dev
      /\ fs' = w.fs
      /\ ui' = ui
      /\ last' = Completed("set_all_fans_auto", "gateway", <<>>, w)

GatewaySetGpuLockedClocks(Ls, Pl) ==
  \E l \in Ls, plan \in Pl :
    \E w \in {GwSetGpuLockedClocks(NewWorld("gateway", plan), l.min_mhz, l.max_mhz)} :
      /\ dev' = w.dev
      /\ fs' = w.fs
      /\ ui' = ui
      /\ last' = Completed("set_gpu_locked_clocks", "gateway", l, w)

GatewayApplyProfile(Ds, Pl) ==
  \E d \in Ds, plan \in Pl :
    \E w \in {GwApplyProfile(NewWorld("gateway", plan), d)} :
      /\ dev' = w.dev
      /\ fs' = w.fs
      /\ ui' = ui
      /\ last' = Completed("apply_profile", "gateway", d, w)

GatewayGetGpuInfo(Pl) ==
  \E plan \in Pl :
    \E w \in {GwGetGpuInfo(NewWorld("gateway", plan))} :
      /\ dev' = w.dev
      /\ fs' = w.fs
      /\ ui' = ui
      /\ last' = Completed("get_gpu_info", "gateway", <<>>, w)

GatewayGetGpuStats(Pl) ==
  \E plan \in Pl :
    \E w \in {GwGetGpuStats(NewWorld("gateway", plan))} :
      /\ dev' = w.dev
      /\ fs' = w.fs
      /\ ui' = ui
      /\ last' = Completed("get_gpu_stats", "gateway", <<>>, w)

GatewayGetPowerLimits(Pl) ==
  \E plan \in Pl :
    \E w \in {GwGetPowerLimits(NewWorld("gateway", plan))} :
      /\ dev' = w.dev
      /\ fs' = w.fs
      /\ ui' = ui
      /\ last' = Completed("get_power_limits", "gateway", <<>>, w)

GatewayGetClockOffsets(Pl) ==
  \E plan \in Pl :
    \E w \in {GwGetClockOffsets(NewWorld("gateway", plan))} :
      /\ dev' = w.dev
      /\ fs' = w.fs
      /\ ui' = ui
      /\ last' = Completed("get_clock_offsets", "gateway", <<>>, w)

GatewayGetFanCount(Pl) ==
  \E plan \in Pl :
    \E w \in {GwGetFanCount(NewWorld("gateway", plan))} :
      /\ dev' = w.dev
      /\ fs' = w.fs
      /\ ui' = ui
      /\ last' = Completed("get_fan_count", "gateway", <<>>, w)

GatewayGetFanSpeed(Pl) ==
  \E f \in Fans, plan \in Pl :
    \E w \in {GwGetFanSpeed(NewWorld("gateway", plan), f)} :
      /\ dev' = w.dev
      /\ fs' = w.fs
      /\ ui' = ui
      /\ last' = Completed("get_fan_speed", "gateway", [fan |-> f], w)

\* ---- ProfileManager.apply_profile on either controller ----
ProfileApply(Ps, Pl) ==
  \E profile \in Ps, ctl \in {"facade", "gateway"}, plan \in Pl :
    \E w \in {ApplyProfile(NewWorld(IF ctl = "facade" THEN "direct" ELSE "gateway",
                plan), profile, ctl)} :
      /\ dev' = w.dev
      /\ fs' = w.fs
      /\ ui' = ui
      /\ last' = Completed("apply_profile", ctl, profile, w)

(***************************************************************************)
(* Clock offsets: the facade, the helper and the gateway                   *)
(***************************************************************************)
OffsetTemps == {CRITICAL_TEMP_CELSIUS - 1, CRITICAL_TEMP_CELSIUS, CRITICAL_TEMP_CELSIUS + 1}

Over(limit) == limit + Excess

\* Requests below, inside, at and beyond the limits; None: component not given.
OffsetRequests ==
  {[core |-> Some(Over(MAX_CORE_CLOCK_OFFSET_MHZ)), mem |-> None],
   [core |-> None, mem |-> Some(-Over(MAX_MEMORY_CLOCK_OFFSET_MHZ))],
   [core |-> Some(-Over(MAX_CORE_CLOCK_OFFSET_MHZ)),
    mem |-> Some(Over(MAX_MEMORY_CLOCK_OFFSET_MHZ))],
   [core |-> Some(Excess), mem |-> Some(-Excess)]}

OffsetArgvs ==
  {Argv("set-clock-offsets", <<StrInt(r.core.v), StrInt(r.mem.v)>>) :
     r \in {q \in OffsetRequests : q.core.some /\ q.mem.some}}
  \cup {Argv("reset-clocks", <<>>)}

\* Faults that can touch an offset operation: either vendor write fails, a
\* read fails, the helper's NVML does not initialize, pkexec misbehaves.
OffsetDevicePlans ==
  {NoFault}
  \cup {p \in WriteFaults : p.failAt <= 2}
  \cup {p \in ReadFaults : p.broken \subseteq {"core_offset", "mem_offset",
                                                "temperature", "init"}}
OffsetPlans == OffsetDevicePlans \cup {p \in ElevFaults : p.elevAt = 1}

InitOffsets ==
  /\ dev = InitDevice(1)
  /\ fs = NoFiles
  /\ ui = NoUi
  /\ last = NoOp

NextOffsets ==
  \/ TempChange(OffsetTemps)
  \/ FacadeSetClockOffsets(OffsetRequests, OffsetDevicePlans)
  \/ FacadeResetClockOffsets(OffsetDevicePlans)
  \/ HelperRun(OffsetArgvs, OffsetDevicePlans)
  \/ GatewaySetClockOffsets(OffsetRequests, OffsetPlans)
  \/ GatewayResetClockOffsets(OffsetPlans)

SpecOffsets == InitOffsets /\ [][NextOffsets]_vars

\* clamp(v, -limit, limit), stated independently of the program's arithmetic.
WithinLimit(v, limit) == -limit <= v /\ v <= limit
Clamped(v, limit) ==
  IF v > limit THEN limit ELSE IF v < -limit THEN -limit ELSE v

\* The offsets a completed set_clock_offsets hands back: the returned tuple of
\* the facade and the gateway, the response object of the helper.
OffsetsCall ==
  \/ last.op = "set_clock_offsets" /\ last.via \in {"facade", "gateway"}
  \/ last.op = "set-clock-offsets" /\ last.via = "helper"
OffsetsSucceeded ==
  /\ OffsetsCall
  /\ IF last.via = "helper" THEN last.exited /\ last.code = 0
     ELSE last.exc.cls = "none"
ReturnedCore ==
  IF last.via = "helper" THEN last.stdout[1].fields.core_offset ELSE last.ret[1]
ReturnedMem ==
  IF last.via = "helper" THEN last.stdout[1].fields.memory_offset ELSE last.ret[2]
RequestedCore == IF last.via = "helper" THEN Some(last.req.args[1].v) ELSE last.req.core
RequestedMem == IF last.via = "helper" THEN Some(last.req.args[2].v) ELSE last.req.mem

OffsetWrites == {"SetGpcClkVfOffset", "SetMemClkVfOffset"}
LimitOf(call) ==
  IF call = "SetGpcClkVfOffset" THEN MAX_CORE_CLOCK_OFFSET_MHZ
  ELSE MAX_MEMORY_CLOCK_OFFSET_MHZ

\* C1: a set_clock_offsets that completes below the critical temperature
\* (through the facade, the helper or the gateway) has written to the device
\* and returned clamp(x, -MAX_CORE, MAX_CORE) and clamp(y, -MAX_MEM, MAX_MEM)
\* for the requested x and y (for a component not requested: the value it
\* wrote); and every offset any operation wrote, and the offsets the device
\* holds, lie within those limits.
C1_OffsetsClamped ==
  /\ OffsetsSucceeded =>
       /\ dev.temp < CRITICAL_TEMP_CELSIUS
       /\ ReturnedCore = dev.core
       /\ ReturnedMem = dev.mem
       /\ RequestedCore.some =>
            ReturnedCore = Clamped(RequestedCore.v, MAX_CORE_CLOCK_OFFSET_MHZ)
       /\ RequestedMem.some =>
            ReturnedMem = Clamped(RequestedMem.v, MAX_MEMORY_CLOCK_OFFSET_MHZ)
       /\ \E i, j \in 1 .. Len(last.log) :
            /\ i < j
            /\ last.log[i].call = "SetGpcClkVfOffset" /\ last.log[i].a = ReturnedCore
            /\ last.log[j].call = "SetMemClkVfOffset" /\ last.log[j].a = ReturnedMem
  /\ \A i \in 1 .. Len(last.log) :
       last.log[i].call \in OffsetWrites =>
         WithinLimit(last.log[i].a, LimitOf(last.log[i].call))
  /\ WithinLimit(dev.core, MAX_CORE_CLOCK_OFFSET_MHZ)
  /\ WithinLimit(dev.mem, MAX_MEMORY_CLOCK_OFFSET_MHZ)

\* C16 as stated: every clock offset written to the device lies within the
\* limits the safety notes and the configuration defaults state, +/-200 MHz
\* for the core clock and +/-500 MHz for the memory clock.
C16_DocumentedCaps ==
  \A i \in 1 .. Len(last.log) :
    /\ last.log[i].call = "SetGpcClkVfOffset" =>
         WithinLimit(last.log[i].a, max_core_offset_mhz)
    /\ last.log[i].call = "SetMemClkVfOffset" =>
         WithinLimit(last.log[i].a, max_memory_offset_mhz)

\* C1 happens: the gateway was asked for offsets beyond both limits and the
\* helper wrote and reported the limits.
C1_Witness ==
  /\ last.op = "set_clock_offsets" /\ last.via = "gateway"
  /\ last.exc.cls = "none"
  /\ last.req.core.some /\ last.req.core.v < -MAX_CORE_CLOCK_OFFSET_MHZ
  /\ last.req.mem.some /\ last.req.mem.v > MAX_MEMORY_CLOCK_OFFSET_MHZ
  /\ last.ret = <<-MAX_CORE_CLOCK_OFFSET_MHZ, MAX_MEMORY_CLOCK_OFFSET_MHZ>>
  /\ dev.core = -MAX_CORE_CLOCK_OFFSET_MHZ /\ dev.mem = MAX_MEMORY_CLOCK_OFFSET_MHZ

ThermalError == [cls |-> "NVMLError", msg |-> "GPU temperature too high"]

\* A step that is a facade set_clock_offsets call on which the temperature
\* was read (operations never change the temperature, the environment's
\* temperature steps always do).
GuardedOffsetsStep ==
  /\ dev'.temp = dev.temp
  /\ <<dev, fs, last>> # <<dev', fs', last'>>
  /\ last'.op = "set_clock_offsets" /\ last'.via = "facade"
  /\ last'.exc.msg # "Failed to get GPU stats"

\* C2: a facade set_clock_offsets called at or above the critical temperature
\* raises the thermal-guard error, issues no vendor write and leaves both
\* offsets of the device as they were; nothing is returned.
C2_ThermalGuard ==
  [][(GuardedOffsetsStep /\ dev.temp >= CRITICAL_TEMP_CELSIUS) =>
       /\ last'.exc = ThermalError
       /\ last'.log = <<>>
       /\ last'.ret = <<>>
       /\ dev'.core = dev.core /\ dev'.mem = dev.mem]_vars

\* C2 happens: at exactly the critical temperature a request beyond the core
\* limit was refused, and the device does not hold the clamped value.
C2_Witness ==
  /\ last.op = "set_clock_offsets" /\ last.via = "facade"
  /\ dev.temp = CRITICAL_TEMP_CELSIUS
  /\ last.exc = ThermalError
  /\ last.req.core.some /\ last.req.core.v > MAX_CORE_CLOCK_OFFSET_MHZ
  /\ dev.core # MAX_CORE_CLOCK_OFFSET_MHZ
  /\ last.log = <<>>

(***************************************************************************)
(* Fan speed: the temperature escalation of set_fan_speed                  *)
(***************************************************************************)
FanTemps ==
  {WARNING_TEMP_CELSIUS - 1, WARNING_TEMP_CELSIUS, CRITICAL_TEMP_CELSIUS - 1,
   CRITICAL_TEMP_CELSIUS, CRITICAL_TEMP_CELSIUS + Excess}

\* Requests below the minimum, above the warning floor and beyond 100.
FanPercents == {0, WARNING_MIN_FAN_PERCENT + Excess, FAN_FULL_PERCENT + Excess}

FanPlans ==
  {NoFault}
  \cup {p \in WriteFaults : p.failAt <= 2 /\ p.failKind = "error"}
  \cup {p \in ReadFaults : p.broken = {"temperature"}}

InitFan ==
  /\ dev = InitDevice(2)
  /\ fs = NoFiles
  /\ ui = NoUi
  /\ last = NoOp

NextFan ==
  \/ TempChange(FanTemps)
  \/ FacadeSetFanSpeed(FanPercents, FanPlans)
  \/ FacadeSetFanAuto(FanPlans)
  \/ FacadeSetAllFansSpeed(FanPercents, FanPlans)

SpecFan == InitFan /\ [][NextFan]_vars

\* A completed set_fan_speed of the facade (last.req: the percentage asked
\* and the fan); the device temperature is the one the call read.
FanSpeedSet ==
  /\ last.op = "set_fan_speed" /\ last.via = "facade"
  /\ last.exc.cls = "none"

\* The call commanded percentage s for its fan and returned it.
CommandedAndReturned(s) ==
  /\ last.ret = <<s>>
  /\ dev.speed[last.req.fan] = s
  /\ dev.policy[last.req.fan] = "manual"
  /\ last.log[Len(last.log)] =
       [call |-> "SetFanSpeed_v2", a |-> last.req.fan, b |-> s, owner |-> "direct"]

\* C3: at a temperature at or above the critical one, a set_fan_speed that
\* completes has commanded and returned exactly 100 for every requested
\* percentage and fan, and no fan speed other than 100 is written at all.
C3_CriticalFullSpeed ==
  dev.temp >= CRITICAL_TEMP_CELSIUS =>
    /\ FanSpeedSet => CommandedAndReturned(FAN_FULL_PERCENT)
    /\ \A i \in 1 .. Len(last.log) :
         last.log[i].call = "SetFanSpeed_v2" => last.log[i].b = FAN_FULL_PERCENT

\* C3 happens: exactly at the critical temperature 0 percent was asked for
\* the second fan and 100 was commanded.
C3_Witness ==
  /\ FanSpeedSet
  /\ dev.temp = CRITICAL_TEMP_CELSIUS
  /\ last.req.percent = 0 /\ last.req.fan = 1
  /\ dev.speed[1] = FAN_FULL_PERCENT
  /\ last.ret = <<FAN_FULL_PERCENT>>

\* floor(t) of the claim and max(floor(t), min(100, p)).
FanFloor(t) ==
  IF t >= WARNING_TEMP_CELSIUS THEN WARNING_MIN_FAN_PERCENT ELSE MIN_FAN_SPEED_PERCENT
FlooredPercent(p, t) ==
  LET capped == IF p > FAN_FULL_PERCENT THEN FAN_FULL_PERCENT ELSE p
  IN IF capped < FanFloor(t) THEN FanFloor(t) ELSE capped

\* C4: below the critical temperature a set_fan_speed that completes has
\* commanded and returned max(floor(t), min(100, p)): at least 70 in the
\* warning band, at least MIN_FAN_SPEED_PERCENT below it, never above 100.
C4_FanFloors ==
  (FanSpeedSet /\ dev.temp < CRITICAL_TEMP_CELSIUS) =>
    /\ CommandedAndReturned(FlooredPercent(last.req.percent, dev.temp))
    /\ last.ret[1] <= FAN_FULL_PERCENT
    /\ dev.temp >= WARNING_TEMP_CELSIUS => last.ret[1] >= WARNING_MIN_FAN_PERCENT
    /\ dev.temp < WARNING_TEMP_CELSIUS => last.ret[1] >= MIN_FAN_SPEED_PERCENT

\* C4 happens: exactly at the warning temperature 0 percent was asked and 70
\* was commanded.
C4_Witness ==
  /\ FanSpeedSet
  /\ dev.temp = WARNING_TEMP_CELSIUS
  /\ last.req.percent = 0
  /\ last.ret = <<WARNING_MIN_FAN_PERCENT>>
  /\ dev.speed[last.req.fan] = WARNING_MIN_FAN_PERCENT

(***************************************************************************)
(* Power limit: constraints that move between calls                        *)
(***************************************************************************)
\* <<min, max>> in milliwatts as the hardware reports them.
PowerConstraints ==
  {<<100 * MW_PER_WATT, 300 * MW_PER_WATT>>,
   <<128200, 250 * MW_PER_WATT>>,
   <<150 * MW_PER_WATT, 200 * MW_PER_WATT>>}

\* Requested watts (in thousandths): below every minimum, 128.2 W, inside
\* every range, above every maximum.
PowerRequests ==
  {50 * MW_PER_WATT, 128200, 175 * MW_PER_WATT, 400 * MW_PER_WATT}

PowerArgvs ==
  {Argv("set-power-limit", <<StrFloat(x)>>) : x \in PowerRequests}
  \cup {Argv("set-power-limit", <<StrInt(175)>>),
        Argv("set-power-limit", <<Tok("junk", 0)>>),
        Argv("set-power-limit", <<>>)}

PowerPlans ==
  {NoFault}
  \cup {p \in WriteFaults : p.failAt = 1}
  \cup {p \in ReadFaults : p.broken \in {{"power"}, {"init"}}}

InitPower ==
  /\ dev = InitDevice(1)
  /\ fs = NoFiles
  /\ ui = NoUi
  /\ last = NoOp

NextPower ==
  \/ ConstraintChange(PowerConstraints)
  \/ FacadeSetPowerLimit(PowerRequests, PowerPlans)
  \/ HelperRun(PowerArgvs, PowerPlans)
  \/ GatewaySetPowerLimit(PowerRequests, PowerPlans)

SpecPower == InitPower /\ [][NextPower]_vars

\* clamp(w, min, max) in milliwatts.
ClampedMilliwatts(watts, min_mw, max_mw) ==
  IF watts < min_mw THEN min_mw ELSE IF watts > max_mw THEN max_mw ELSE watts

\* C5: a facade set_power_limit that completes has written
\* clamp(w, min, max) for the constraints the hardware reports at that call,
\* and that value lies within them.
C5_PowerClamped ==
  (last.op = "set_power_limit" /\ last.via = "facade" /\ last.exc.cls = "none") =>
    /\ Len(last.log) = 1
    /\ last.log[1].call = "SetPowerManagementLimit"
    /\ last.log[1].a = ClampedMilliwatts(last.req.watts, dev.pmin, dev.pmax)
    /\ dev.pmin <= last.log[1].a /\ last.log[1].a <= dev.pmax

\* C15 as stated: when a gateway set_power_limit completes, the power_limit
\* field of the helper's response is the request clamped to the constraints
\* of the device, the wattage the facade set out to write.
C15_ResponseCarriesClamped ==
  (last.op = "set_power_limit" /\ last.via = "gateway" /\ last.exc.cls = "none") =>
    /\ Len(last.procs) = 1
    /\ last.procs[1].stdout[1].fields.power_limit
         = ClampedMilliwatts(last.req.watts, dev.pmin, dev.pmax)

(***************************************************************************)
(* The helper: every command of its surface, every argument list           *)
(***************************************************************************)
SurfaceCommands ==
  {"status", "set-power-limit", "set-clock-offsets", "set-locked-clocks",
   "reset-clocks", "set-fan-speed", "set-fan-auto", "apply-profile",
   "apply-boot-profile", "list-profiles", "list-gpus"}

Junk == Tok("junk", 0)

\* A profile object as json.loads gives it; a key that is absent or null is None.
ProfileDict(power, core, mem, mode, speed) ==
  [power_limit_watts |-> power, core_clock_offset_mhz |-> core,
   memory_clock_offset_mhz |-> mem, fan_mode |-> mode, fan_speed_percent |-> speed]

HelperProfiles ==
  {ProfileDict(Some(200 * MW_PER_WATT), Some(100), None, "manual", Some(50)),
   ProfileDict(None, None, Some(-Over(MAX_MEMORY_CLOCK_OFFSET_MHZ)), "auto", None),
   ProfileDict(None, None, None, "curve", None)}

\* Well-formed argument lists, lists that are too short, lists with a
\* non-numeric argument, a fan the device does not have, profile blobs of
\* every kind; "help", an unknown command and the empty command line are not
\* commands of the surface.
HelperArgvs ==
  {Argv(c, <<>>) : c \in SurfaceCommands \cup {"help", "frobnicate"}}
  \cup {[Argv("", <<>>) EXCEPT !.given = FALSE]}
  \cup {Argv("set-power-limit", a) : a \in {<<StrFloat(200 * MW_PER_WATT)>>, <<Junk>>}}
  \cup {Argv("set-clock-offsets", a) :
          a \in {<<StrInt(100), StrInt(-Over(MAX_MEMORY_CLOCK_OFFSET_MHZ))>>,
                 <<StrInt(100)>>, <<StrInt(100), Junk>>}}
  \cup {Argv("set-locked-clocks", a) :
          a \in {<<StrInt(0), StrInt(1800)>>, <<StrInt(0), StrInt(0)>>,
                 <<Junk, StrInt(0)>>}}
  \cup {Argv("set-fan-speed", a) :
          a \in {<<StrInt(50)>>, <<StrInt(50), StrInt(MaxFans)>>, <<StrInt(50), Junk>>,
                 <<Junk>>}}
  \cup {Argv("set-fan-auto", a) : a \in {<<StrInt(0)>>, <<Junk>>}}
  \cup {ArgvBlob("apply-profile", b) :
          b \in {[kind |-> "invalid"], [kind |-> "nonobject"]}
                \cup {[kind |-> "object", d |-> d] : d \in HelperProfiles}}

HelperPlans ==
  {NoFault}
  \cup {p \in WriteFaults : p.failAt <= 2 /\ p.failKind = "noperm"}
  \cup {p \in ReadFaults : p.broken \in {{"init"}, {"temperature"}, {"power"}, {"info"}}}

\* The files a run can find: nothing, a crash marker, a boot profile name
\* with an empty and with a non-empty profile store.
HelperFiles ==
  {NoFiles,
   [NoFiles EXCEPT !.marker = TRUE],
   [NoFiles EXCEPT !.boot_profile_name = "quiet"],
   [NoFiles EXCEPT !.boot_profile_name = "quiet", !.profiles = {"quiet"}]}

InitHelper ==
  /\ \/ \E t \in {WARNING_TEMP_CELSIUS - 1, CRITICAL_TEMP_CELSIUS} :
          /\ dev = [InitDevice(1) EXCEPT !.temp = t]
          /\ fs = NoFiles
     \/ /\ dev = InitDevice(1)
        /\ fs \in HelperFiles
  /\ ui = NoUi
  /\ last = NoOp

NextHelper == HelperRun(HelperArgvs, HelperPlans)

SpecHelper == InitHelper /\ [][NextHelper]_vars

\* C6: a helper run of a surface command, whatever its arguments and
\* whatever the device does, has printed exactly one JSON object and exited,
\* with a non-zero status exactly when the object has success = false.
C6_OneJsonObject ==
  (last.via = "helper" /\ last.op \in SurfaceCommands /\ last.req.given) =>
    /\ last.exited
    /\ Len(last.stdout) = 1
    /\ last.stdout[1].kind = "json"
    /\ (last.code # 0) <=> ~last.stdout[1].success

\* C6 happens: apply-profile was handed a blob that is no JSON; the run
\* printed the one failure object and exited non-zero.
C6_Witness ==
  /\ last.via = "helper" /\ last.op = "apply-profile"
  /\ Len(last.req.args) > 0 /\ last.req.blob.kind = "invalid"
  /\ last.exited /\ last.code # 0
  /\ last.stdout = <<JsonError("Invalid JSON")>>

(***************************************************************************)
(* The gateway: reads, writes and the ways an elevation can end            *)
(***************************************************************************)
GatewayReads ==
  {"get_gpu_info", "get_gpu_stats", "get_power_limits", "get_clock_offsets",
   "get_fan_count", "get_fan_speed"}
GatewayWrites ==
  {"set_power_limit", "set_clock_offsets", "reset_clock_offsets", "set_fan_speed",
   "set_fan_auto", "set_all_fans_speed", "set_all_fans_auto",
   "set_gpu_locked_clocks", "apply_profile"}

\* Nothing fails, the helper's first vendor write is refused, or the user
\* dismisses the first authentication.
GatewayPlans ==
  {NoFault}
  \cup {p \in WriteFaults : p.failAt = 1 /\ p.failKind = "noperm"}
  \cup {p \in ElevFaults : p.elevAt = 1 /\ p.elevKind = "dismissed"}

\* Every way the first pkexec invocation can end, and the helper failing to
\* open the device.
ElevationPlans ==
  GatewayPlans
  \cup {p \in ElevFaults : p.elevAt = 1}
  \cup {p \in ReadFaults : p.broken = {"init"}}

\* Operations of several invocations: a later authentication is dismissed,
\* or the gateway's own fan count read fails.
SeveralPlans ==
  GatewayPlans
  \cup {p \in ElevFaults : p.elevAt = MaxElevAt /\ p.elevKind = "dismissed"}
  \cup {p \in ReadFaults : p.broken = {"fan_count"}}

GatewayReadPlans == {NoFault} \cup {p \in ReadFaults : p.broken = {"temperature"}}

GatewayProfiles == {ProfileDict(Some(250 * MW_PER_WATT), Some(100), None, "manual", Some(50))}

InitGateway ==
  /\ \E t \in {WARNING_TEMP_CELSIUS - 1, CRITICAL_TEMP_CELSIUS} :
       dev = [InitDevice(2) EXCEPT !.temp = t]
  /\ fs = NoFiles
  /\ ui = NoUi
  /\ last = NoOp

NextGateway ==
  \/ GatewayGetGpuInfo(GatewayReadPlans)
  \/ GatewayGetGpuStats(GatewayReadPlans)
  \/ GatewayGetPowerLimits(GatewayReadPlans)
  \/ GatewayGetClockOffsets(GatewayReadPlans)
  \/ GatewayGetFanCount(GatewayReadPlans)
  \/ GatewayGetFanSpeed(GatewayReadPlans)
  \/ GatewaySetPowerLimit({250 * MW_PER_WATT}, GatewayPlans)
  \/ GatewaySetClockOffsets({[core |-> Some(100), mem |-> None]}, ElevationPlans)
  \/ GatewayResetClockOffsets(GatewayPlans)
  \/ GatewaySetFanSpeed({50}, GatewayPlans)
  \/ GatewaySetFanAuto(GatewayPlans)
  \/ GatewaySetAllFansSpeed({50}, SeveralPlans)
  \/ GatewaySetAllFansAuto(SeveralPlans)
  \/ GatewaySetGpuLockedClocks({[min_mhz |-> 0, max_mhz |-> 1800]}, GatewayPlans)
  \/ GatewayApplyProfile(GatewayProfiles, GatewayPlans)

SpecGateway == InitGateway /\ [][NextGateway]_vars

\* The last pkexec invocation of the operation just completed: how it went
\* (kind), its exit status and what it printed.
GatewayWrote == last.via = "gateway" /\ last.op \in GatewayWrites /\ last.spawns > 0
LastRun == last.procs[Len(last.procs)]
PrintedOneObject == Len(LastRun.stdout) = 1 /\ LastRun.stdout[1].kind = "json"
ReportedSuccess == PrintedOneObject /\ LastRun.stdout[1].success
FailedWith(msg) == last.exc = [cls |-> "PrivilegedControllerError", msg |-> msg]

\* C7: the call of a gateway write that made the last pkexec invocation ends
\* in the one outcome that invocation fixes: dismissed -> "Authentication
\* cancelled"; no exit within the timeout -> "Operation timed out"; pkexec
\* missing or ended non-zero without output -> its failure; output that is not
\* one JSON object -> "Invalid helper response"; an object with success false
\* -> a failure carrying the object's error message; and only an object with
\* success true lets the call return.  Every failure is a
\* PrivilegedControllerError.
C7_ElevationOutcomes ==
  GatewayWrote =>
    /\ LastRun.kind = "dismissed" => FailedWith("Authentication cancelled")
    /\ LastRun.kind \in {"timeout_unstarted", "timeout_running"} =>
         FailedWith("Operation timed out")
    /\ LastRun.kind = "not_found" => FailedWith("pkexec not found - install polkit")
    /\ LastRun.kind = "unauthorized" => FailedWith("Not authorized")
    /\ LastRun.kind = "crashed" => FailedWith("Helper failed with code")
    /\ (LastRun.kind \in {"ok", "noisy"} /\ ~PrintedOneObject) =>
         FailedWith("Invalid helper response")
    /\ (LastRun.kind = "ok" /\ PrintedOneObject /\ ~LastRun.stdout[1].success) =>
         FailedWith(LastRun.stdout[1].error)
    /\ (LastRun.kind = "ok" /\ ReportedSuccess) => last.exc.cls = "none"
    /\ last.exc.cls = "none" => (LastRun.kind = "ok" /\ ReportedSuccess)
    /\ last.exc.cls \in {"none", "PrivilegedControllerError"}

\* C7 happens: the helper refused at the thermal guard and the caller of
\* set_clock_offsets got the helper's message as its failure.
C7_Witness ==
  /\ GatewayWrote /\ last.op = "set_clock_offsets"
  /\ LastRun.kind = "ok" /\ LastRun.returncode # 0
  /\ LastRun.stdout = <<JsonError("GPU temperature too high")>>
  /\ FailedWith("GPU temperature too high")

\* C8: a gateway read is answered by the gateway's own facade instance,
\* starts no helper and writes nothing; a gateway write reaches the device
\* only in helper invocations: every vendor write it caused was issued by a
\* helper's facade, and none without a pkexec invocation.
C8_ReadsDirectWritesElevated ==
  /\ (last.via = "gateway" /\ last.op \in GatewayReads) =>
       /\ last.spawns = 0 /\ last.procs = <<>> /\ last.log = <<>>
       /\ last.exc.cls = "none" => last.served = {"reader"}
  /\ (last.via = "gateway" /\ last.op \in GatewayWrites) =>
       /\ \A i \in 1 .. Len(last.log) : last.log[i].owner = "helper"
       /\ last.log # <<>> => last.spawns > 0
       /\ last.exc.cls = "none" => last.spawns > 0

\* C8 happens: set_all_fans_auto asked its own facade for the fan count and
\* switched both fans in two helper invocations.
C8_Witness ==
  /\ last.via = "gateway" /\ last.op = "set_all_fans_auto"
  /\ last.exc.cls = "none"
  /\ last.served = {"reader"}
  /\ last.spawns = 2
  /\ Len(last.log) = 2
  /\ \A i \in 1 .. 2 : last.log[i].owner = "helper"

(***************************************************************************)
(* Applying a profile: ProfileManager.apply_profile and apply-profile      *)
(***************************************************************************)
\* A Profile as ProfileManager.apply_profile reads it.
Profile(power, core, mem, max_clock, mode, speed) ==
  [power_limit_watts |-> power, core_clock_offset_mhz |-> core,
   memory_clock_offset_mhz |-> mem, max_clock_mhz |-> max_clock,
   fan_mode |-> mode, fan_speed_percent |-> speed]

\* Every field set; nothing set but the fan mode; a lock of 0, the memory
\* offset alone and a manual mode without a speed.
ApplyProfiles ==
  {Profile(Some(250 * MW_PER_WATT), Some(100), Some(-200), Some(1800), "manual", Some(50)),
   Profile(None, None, None, None, "auto", None),
   Profile(None, None, Some(-200), Some(0), "manual", None)}

ApplyDicts ==
  {ProfileDict(Some(250 * MW_PER_WATT), Some(100), Some(-200), "manual", None),
   ProfileDict(None, None, None, "auto", None)}

ApplyArgvs ==
  {ArgvBlob("apply-profile", [kind |-> "object", d |-> d]) : d \in ApplyDicts}

\* Nothing fails; any one of the first vendor writes fails, for lack of
\* permission or otherwise; the device cannot be opened, or its fans not
\* counted; the first authentication is dismissed, or a later helper
\* outlives the timeout.
ApplyPlans ==
  {NoFault}
  \cup {p \in WriteFaults : (p.failAt % 2 = 1) <=> (p.failKind = "noperm")}
  \cup {p \in ReadFaults : p.broken \in {{"init"}, {"fan_count"}}}
  \cup {p \in ElevFaults : \/ p.elevAt = 1 /\ p.elevKind = "dismissed"
                           \/ p.elevAt = MaxElevAt /\ p.elevKind = "timeout_running"}

InitApply ==
  /\ \E t \in {WARNING_TEMP_CELSIUS - 1, CRITICAL_TEMP_CELSIUS} :
       dev = [InitDevice(2) EXCEPT !.temp = t]
  /\ fs = NoFiles
  /\ ui = NoUi
  /\ last = NoOp

NextApply ==
  \/ ProfileApply(ApplyProfiles, ApplyPlans)
  \/ HelperRun(ApplyArgvs, ApplyPlans)

SpecApply == InitApply /\ [][NextApply]_vars

\* The apply just completed, by its orchestrator.
ManagerApplied == last.op = "apply_profile" /\ last.via \in {"facade", "gateway"}
HelperApplied == last.op = "apply-profile" /\ last.via = "helper"
AppliedProfile == IF HelperApplied THEN last.req.blob.d ELSE last.req

\* The controller calls a profile asks for, in the order power limit, clock
\* offsets, frequency lock, fan.
MethodCall(m, a, b) == [m |-> m, a |-> a, b |-> b]
PlannedPower(p) ==
  IF p.power_limit_watts.some
    THEN <<MethodCall("set_power_limit", p.power_limit_watts, None)>> ELSE <<>>
PlannedOffsets(p) ==
  IF p.core_clock_offset_mhz.some \/ p.memory_clock_offset_mhz.some
    THEN <<MethodCall("set_clock_offsets", p.core_clock_offset_mhz,
                      p.memory_clock_offset_mhz)>>
    ELSE <<>>
LockTarget(p) ==
  IF p.max_clock_mhz.some /\ p.max_clock_mhz.v > 0 THEN p.max_clock_mhz.v ELSE 0
PlannedLock(p) ==
  <<MethodCall("set_gpu_locked_clocks", Some(0), Some(LockTarget(p)))>>
PlannedFan(p) ==
  IF p.fan_mode = "auto" THEN <<MethodCall("set_all_fans_auto", None, None)>>
  ELSE IF p.fan_mode = "manual" /\ p.fan_speed_percent.some
    THEN <<MethodCall("set_all_fans_speed", p.fan_speed_percent, None)>>
  ELSE <<>>
\* apply-profile has no lock step and runs a manual mode without a speed at
\* the default speed.
PlannedHelperFan(p) ==
  IF p.fan_mode = "manual" /\ ~p.fan_speed_percent.some
    THEN <<MethodCall("set_all_fans_speed", Some(DEFAULT_MANUAL_FAN_PERCENT), None)>>
    ELSE PlannedFan(p)
ManagerPlan(p) == PlannedPower(p) \o PlannedOffsets(p) \o PlannedLock(p) \o PlannedFan(p)
HelperPlan(p) == PlannedPower(p) \o PlannedOffsets(p) \o PlannedHelperFan(p)
AppliedPlan == IF HelperApplied THEN HelperPlan(AppliedProfile) ELSE ManagerPlan(AppliedProfile)

IsPrefix(s, t) == Len(s) <= Len(t) /\ \A i \in 1 .. Len(s) : s[i] = t[i]

\* The step a method call, or a vendor write, belongs to.
StepOfMethod(m) ==
  CASE m = "set_power_limit" -> 1
    [] m = "set_clock_offsets" -> 2
    [] m = "set_gpu_locked_clocks" -> 3
    [] OTHER -> 4
StepOfWrite(c) ==
  CASE c = "SetPowerManagementLimit" -> 1
    [] c \in {"SetGpcClkVfOffset", "SetMemClkVfOffset"} -> 2
    [] c \in {"ResetGpuLockedClocks", "SetGpuLockedClocks"} -> 3
    [] OTHER -> 4
WritesInStepOrder ==
  \A i, j \in 1 .. Len(last.log) :
    i < j => StepOfWrite(last.log[i].call) <= StepOfWrite(last.log[j].call)
LockWritten ==
  \E i \in 1 .. Len(last.log) :
    last.log[i].call =
      (IF LockTarget(last.req) = 0 THEN "ResetGpuLockedClocks" ELSE "SetGpuLockedClocks")

\* C9: ProfileManager.apply_profile calls the controller in the order power
\* limit, clock offsets, frequency lock, fan, leaving out the power call and
\* the offsets call when their fields are unset; the lock call is always
\* part of the order, (0, max_clock) for a profile with a lock and (0, 0)
\* otherwise.  The calls made are an initial part of that order, all of it
\* when the apply returns True, and then the device holds the lock value of
\* the call; the vendor writes reach the device in the same step order.
C9_ApplyOrder ==
  ManagerApplied =>
    /\ IsPrefix(last.calls, ManagerPlan(last.req))
    /\ WritesInStepOrder
    /\ last.status = "True" =>
         /\ last.calls = ManagerPlan(last.req)
         /\ \E i \in 1 .. Len(last.calls) : last.calls[i] = PlannedLock(last.req)[1]
         /\ LockWritten
         /\ dev.lockMin = 0 /\ dev.lockMax = LockTarget(last.req)

\* C9 happens: a profile that sets only the memory offset was applied through
\* the gateway, and the lock was reset after the offsets were written.
C9_Witness ==
  /\ ManagerApplied /\ last.via = "gateway" /\ last.status = "True"
  /\ ~last.req.power_limit_watts.some /\ last.req.memory_clock_offset_mhz.some
  /\ Len(last.calls) = 2
  /\ last.calls[2] = MethodCall("set_gpu_locked_clocks", Some(0), Some(0))
  /\ last.log[Len(last.log)].call = "ResetGpuLockedClocks"

\* The apply was stopped by an exception: caught by apply_profile, or left
\* pending for main's handler in the helper.
ApplyFailed ==
  \/ ManagerApplied /\ last.caught.cls # "none"
  \/ HelperApplied /\ last.exc.cls # "none"
ReportedFailure ==
  IF HelperApplied
    THEN /\ last.exited /\ last.code # 0
         /\ last.stdout = <<JsonError(last.exc.msg)>>
    ELSE last.status = "False"
ReportedDone ==
  IF HelperApplied
    THEN /\ last.exited /\ last.code = 0
         /\ Len(last.stdout) = 1 /\ last.stdout[1].success
    ELSE last.status = "True"

\* C10: when a step of an apply (ProfileManager.apply_profile, the helper's
\* apply-profile) fails, every vendor write made so far is still what the
\* device holds, no controller call and no vendor write of a later step has
\* been made, and the apply reports failure; success is reported only by an
\* apply that made all its calls without a failure.
C10_FailedApply ==
  (ManagerApplied \/ HelperApplied) =>
    /\ \A i \in 1 .. Len(last.log) : ApplyCall(dev, last.log[i]) = dev
    /\ ApplyFailed =>
         /\ IsPrefix(last.calls, AppliedPlan)
         /\ \A i \in 1 .. Len(last.log) :
              /\ last.calls # <<>>
              /\ StepOfWrite(last.log[i].call)
                   <= StepOfMethod(last.calls[Len(last.calls)].m)
         /\ ReportedFailure
         /\ ~ReportedDone
    /\ ReportedDone => (~ApplyFailed /\ last.calls = AppliedPlan)

\* C10 happens: the lock step of apply_profile failed after the power limit
\* and both offsets had been written; they are still in effect, the fan step
\* was not reached and the apply returned False.
C10_Witness ==
  /\ ManagerApplied /\ last.status = "False"
  /\ Len(last.calls) = 3 /\ last.calls[3].m = "set_gpu_locked_clocks"
  /\ Len(ManagerPlan(last.req)) = 4
  /\ Len(last.log) = 3
  /\ dev.power = 250 * MW_PER_WATT /\ dev.core = 100 /\ dev.mem = -200
  /\ dev.lockMax = 0
  /\ \A f \in 0 .. (dev.nfans - 1) : dev.policy[f] = "auto"

(***************************************************************************)
(* Boot apply and the crash marker                                         *)
(***************************************************************************)
BootNames == {"quiet", "stock"}

BootPlans == {NoFault} \cup FileFaults

BootArgvs == {Argv("apply-boot-profile", <<>>)}

\* Any marker (left by a run killed earlier), any configured name, any store.
InitBoot ==
  /\ dev = InitDevice(1)
  /\ \E m \in BOOLEAN :
       fs = [NoFiles EXCEPT !.marker = m]
  /\ ui = NoUi
  /\ last = NoOp

NextBoot ==
  \/ HelperRun(BootArgvs, BootPlans)
  \/ BootApplyKilled(BootPlans)
  \/ BootProfileChange(BootNames \cup {""})
  \/ StoreChange(BootNames)
  \/ TempChange({WARNING_TEMP_CELSIUS - 1, CRITICAL_TEMP_CELSIUS})

SpecBoot == InitBoot /\ [][NextBoot]_vars

\* What the run just made of apply-boot-profile.
BootRun == last.op = "apply-boot-profile" /\ last.via = "helper"
BootRunEnded == BootRun /\ last.exited
BootRunKilled == BootRun /\ ~last.exited
BootSkipped(reason) ==
  /\ BootRunEnded /\ last.code = 0
  /\ last.stdout = <<JsonSuccess([action |-> "boot-apply", status |-> "skipped",
                                  reason |-> reason])>>
\* The run went past the two skips: it set out to apply the boot profile.
BootAttempted ==
  BootRun /\ ~BootSkipped("crash_recovery") /\ ~BootSkipped("no_boot_profile")
RemovalFailed == last.caught = [cls |-> "OSError", msg |-> "unlink"]
NoFileFailure == last.caught.cls = "none"

C13_NoRetryAfterCrash ==
  [][(/\ BootSkipped("crash_recovery")
      /\ fs'.boot_profile_name = fs.boot_profile_name
      /\ fs'.profiles = fs.profiles
      /\ BootRun') => ~BootAttempted']_vars

\* C14 as stated: without a marker, with a boot profile name configured and
\* a saved profile of that name in the store, and nothing failing, a
\* completed run responds with status success and leaves no marker.
C14_BootApplySucceeds ==
  [][(/\ ~fs.marker
      /\ fs.boot_profile_name # ""
      /\ fs.boot_profile_name \in fs.profiles
      /\ BootRunEnded' /\ NoFileFailure') =>
       /\ last'.code = 0
       /\ Len(last'.stdout) = 1 /\ last'.stdout[1].success
       /\ ~fs'.marker]_vars

(***************************************************************************)
(* ProfileManager: the profile store                                       *)
(***************************************************************************)
\* A str is the sequence of its characters.
LowerOf ==
  [c \in {"O", "C", "U", "Q"} |->
     CASE c = "O" -> "o" [] c = "C" -> "c" [] c = "Q" -> "q" [] OTHER -> "u"]
IsAlnum(c) ==
  c \in {"a", "c", "d", "e", "i", "m", "n", "o", "q", "t", "u", "2"} \cup DOMAIN LowerOf
IsKept(c) == IsAlnum(c) \/ c \in {".", "_", "-", " "}
Lower(c) == IF c \in DOMAIN LowerOf THEN LowerOf[c] ELSE c

RECURSIVE LStrip(_)
LStrip(s) == IF s # <<>> /\ Head(s) = " " THEN LStrip(Tail(s)) ELSE s
RECURSIVE RStrip(_)
RStrip(s) ==
  IF s # <<>> /\ s[Len(s)] = " " THEN RStrip(SubSeq(s, 1, Len(s) - 1)) ELSE s

\* safe_name.replace(" ", "_").lower()
Underscored(s) == [i \in 1 .. Len(s) |-> Lower(IF s[i] = " " THEN "_" ELSE s[i])]

\* A _get_profile_path that keeps the case of the name.
get_profile_path_cased(name) ==
  [i \in 1 .. Len(RStrip(LStrip(SelectSeq(name, IsKept)))) |->
     IF RStrip(LStrip(SelectSeq(name, IsKept)))[i] = " "
       THEN "_" ELSE RStrip(LStrip(SelectSeq(name, IsKept)))[i]]

\* _get_profile_path: the stem of the file a profile of this name is kept in.
get_profile_path(name) == Underscored(RStrip(LStrip(SelectSeq(name, IsKept))))

\* datetime.isoformat(): a non-empty str that orders as the time does; the
\* empty str is <<>>.
Isoformat(t) == <<t>>

\* Optional[Dict[int, int]]
NoCurve == [some |-> FALSE, v |-> {}]
Curve(items) == [some |-> TRUE, v |-> [keys |-> "int", items |-> items]]

Unnamed == <<"U", "n", "n", "a", "m", "e", "d">>

ProfileFields ==
  {"name", "power_limit_watts", "core_clock_offset_mhz", "memory_clock_offset_mhz",
   "max_clock_mhz", "fan_mode", "fan_speed_percent", "fan_curve", "apply_on_boot",
   "created_at", "updated_at", "description"}

\* Profile(name=..., ...) as its callers construct it: no timestamps yet.
NewProfile(name, settings, curve, on_boot, description) ==
  [name |-> name,
   power_limit_watts |-> settings.power_limit_watts,
   core_clock_offset_mhz |-> settings.core_clock_offset_mhz,
   memory_clock_offset_mhz |-> settings.memory_clock_offset_mhz,
   max_clock_mhz |-> settings.max_clock_mhz,
   fan_mode |-> settings.fan_mode,
   fan_speed_percent |-> settings.fan_speed_percent,
   fan_curve |-> curve, apply_on_boot |-> on_boot,
   created_at |-> <<>>, updated_at |-> <<>>, description |-> description]

\* asdict(self)
to_dict(profile) == profile

\* json.dump, and json.load of what it wrote: the keys of an object are
\* strings, so the int keys of a fan curve become their decimal strings.
JsonDump(d) ==
  [d EXCEPT !.fan_curve = IF @.some THEN [@ EXCEPT !.v.keys = "str"] ELSE @]

\* data.get(key, default)
DictGet(data, key, default) == IF key \in DOMAIN data THEN data[key] ELSE default

\* A mutation of from_dict that forgets the fan curve.
from_dict_without_curve(data) ==
  [name |-> DictGet(data, "name", Unnamed),
   power_limit_watts |-> DictGet(data, "power_limit_watts", None),
   core_clock_offset_mhz |-> DictGet(data, "core_clock_offset_mhz", None),
   memory_clock_offset_mhz |-> DictGet(data, "memory_clock_offset_mhz", None),
   max_clock_mhz |-> DictGet(data, "max_clock_mhz", None),
   fan_mode |-> DictGet(data, "fan_mode", "auto"),
   fan_speed_percent |-> DictGet(data, "fan_speed_percent", None),
   fan_curve |-> NoCurve,
   apply_on_boot |-> DictGet(data, "apply_on_boot", FALSE),
   created_at |-> DictGet(data, "created_at", <<>>),
   updated_at |-> DictGet(data, "updated_at", <<>>),
   description |-> DictGet(data, "description", <<>>)]

from_dict(data) ==
  [name |-> DictGet(data, "name", Unnamed),
   power_limit_watts |-> DictGet(data, "power_limit_watts", None),
   core_clock_offset_mhz |-> DictGet(data, "core_clock_offset_mhz", None),
   memory_clock_offset_mhz |-> DictGet(data, "memory_clock_offset_mhz", None),
   max_clock_mhz |-> DictGet(data, "max_clock_mhz", None),
   fan_mode |-> DictGet(data, "fan_mode", "auto"),
   fan_speed_percent |-> DictGet(data, "fan_speed_percent", None),
   fan_curve |-> DictGet(data, "fan_curve", NoCurve),
   apply_on_boot |-> DictGet(data, "apply_on_boot", FALSE),
   created_at |-> DictGet(data, "created_at", <<>>),
   updated_at |-> DictGet(data, "updated_at", <<>>),
   description |-> DictGet(data, "description", <<>>)]

\* A file that a failed write left without a complete JSON document.
Torn == [torn |-> TRUE]
IsJson(file) == "torn" \notin DOMAIN file

StorePut(store, k, file) ==
  [x \in DOMAIN store \cup {k} |-> IF x = k THEN file ELSE store[x]]
StoreRemove(store, k) == [x \in DOMAIN store \ {k} |-> store[x]]

\* save_profile, lines 145-147: the timestamps of the object it was handed.
Stamped(profile, now) ==
  [profile EXCEPT !.created_at = IF @ = <<>> THEN Isoformat(now) ELSE @,
                  !.updated_at = Isoformat(now)]

\* save_profile, lines 149-156, of the stamped object p: the file is opened
\* for writing and the dict dumped into it; an IOError is answered by False,
\* before the file was touched or after it was truncated.
WriteProfile(w, p) ==
  IF Broken(w, "open_w")
    THEN [w EXCEPT !.ret = <<p>>, !.status = "False",
                   !.caught = [cls |-> "OSError", msg |-> "open_w"]]
  ELSE IF Broken(w, "write")
    THEN [w EXCEPT !.fs.store = StorePut(@, get_profile_path(p.name), Torn),
                   !.ret = <<p>>, !.status = "False",
                   !.caught = [cls |-> "OSError", msg |-> "write"]]
  ELSE [w EXCEPT !.fs.store = StorePut(@, get_profile_path(p.name), JsonDump(to_dict(p))),
                 !.ret = <<p>>, !.status = "True"]

\* save_profile(profile) when datetime.now() reads now; ret is the object
\* as the call left it.
save_profile(w, profile, now) ==
  WriteProfile([w EXCEPT !.fs.clock = now], Stamped(profile, now))

\* load_profile(name): ret is <<the Profile>>, or <<>> for None.
load_profile(w, name) ==
  IF get_profile_path(name) \notin DOMAIN w.fs.store THEN [w EXCEPT !.ret = <<>>]
  ELSE IF Broken(w, "open_r") \/ ~IsJson(w.fs.store[get_profile_path(name)])
    THEN [w EXCEPT !.ret = <<>>, !.caught = [cls |-> "OSError", msg |-> "open_r"]]
  ELSE [w EXCEPT !.ret = <<from_dict(w.fs.store[get_profile_path(name)])>>]

\* delete_profile(name)
delete_profile(w, name) ==
  IF get_profile_path(name) \notin DOMAIN w.fs.store THEN [w EXCEPT !.status = "False"]
  ELSE IF Broken(w, "unlink")
    THEN [w EXCEPT !.status = "False", !.caught = [cls |-> "OSError", msg |-> "unlink"]]
  ELSE [w EXCEPT !.fs.store = StoreRemove(@, get_profile_path(name)), !.status = "True"]

\* load_profile(name) and then save_profile of what it returned, if anything.
LoadThenSave(w, now) ==
  IF w.ret = <<>> THEN [w EXCEPT !.status = "None"] ELSE save_profile(w, w.ret[1], now)

\* ---- ProfileManager actions ----
\* The wall clock is read at most MaxClock ticks after the start, and does
\* not go back.
ProfileSave(Profiles, Pl) ==
  /\ \E profile \in Profiles, plan \in Pl, now \in fs.clock .. MaxClock :
       \E w \in {save_profile(NewWorld("manager", plan), profile, now)} :
         /\ fs' = w.fs
         /\ ui' = ui
         /\ last' = Completed("save_profile", "manager", <<profile>>, w)
  /\ dev' = dev

ProfileLoadSave(Names, Pl) ==
  /\ \E name \in Names, plan \in Pl, now \in fs.clock .. MaxClock :
       \E w \in {LoadThenSave(load_profile(NewWorld("manager", plan), name), now)} :
         /\ fs' = w.fs
         /\ ui' = ui
         /\ last' = Completed("load_save", "manager", <<name>>, w)
  /\ dev' = dev

ProfileDelete(Names, Pl) ==
  /\ \E name \in Names, plan \in Pl :
       \E w \in {delete_profile(NewWorld("manager", plan), name)} :
         /\ fs' = w.fs
         /\ ui' = ui
         /\ last' = Completed("delete_profile", "manager", <<name>>, w)
  /\ dev' = dev

\* ---- the specification of the profile store ----
\* "OC" and "oc" are kept in the same file oc.json, " o/ c" in o_c.json.
StoreNames == {<<"O", "C">>, <<"o", "c">>, <<" ", "o", "/", " ", "c">>}

NoSettings ==
  [power_limit_watts |-> None, core_clock_offset_mhz |-> None,
   memory_clock_offset_mhz |-> None, max_clock_mhz |-> None,
   fan_mode |-> "auto", fan_speed_percent |-> None]

AllSettings ==
  [power_limit_watts |-> Some(250), core_clock_offset_mhz |-> Some(100),
   memory_clock_offset_mhz |-> Some(-200), max_clock_mhz |-> Some(1800),
   fan_mode |-> "manual", fan_speed_percent |-> Some(50)]

\* Every optional field set, none set, and the fan curve alone.
StoreProfiles ==
  {NewProfile(<<"O", "C">>, AllSettings, Curve({<<30, 30>>, <<70, 65>>, <<90, 100>>}),
              TRUE, <<"d">>),
   NewProfile(<<"o", "c">>, NoSettings, NoCurve, FALSE, <<>>),
   NewProfile(<<" ", "o", "/", " ", "c">>, NoSettings, Curve({<<50, 40>>}), FALSE, <<>>)}

StorePlans == {NoFault} \cup {[NoFault EXCEPT !.broken = {r}] : r \in {"open_w", "write", "unlink"}}

\* An empty store, or one holding a file written by hand with a name only.
InitStore ==
  /\ dev = InitDevice(1)
  /\ \E store \in {NoFiles.store, StorePut(NoFiles.store, <<"o", "_", "c">>, [name |-> <<"o", " ", "c">>])} :
       fs = [NoFiles EXCEPT !.store = store]
  /\ ui = NoUi
  /\ last = NoOp

NextStore ==
  \/ ProfileSave(StoreProfiles, StorePlans)
  \/ ProfileLoadSave(StoreNames, {NoFault})
  \/ ProfileDelete(StoreNames, StorePlans)

SpecStore == InitStore /\ [][NextStore]_vars

\* The file a profile of this name is kept in, before and after the step.
StoredBefore(name) == fs.store[get_profile_path(name)]
StoredAfter(name) == fs'.store[get_profile_path(name)]
SavedBefore(name) ==
  /\ get_profile_path(name) \in DOMAIN fs.store
  /\ DOMAIN StoredBefore(name) = ProfileFields

\* C17: a successful save_profile under a name that already has a saved
\* record leaves the stored created_at as the earlier save set it, and sets
\* the stored updated_at to the time of this save.
C17_CreatedAtKept ==
  [][(last'.op = "save_profile" /\ last'.status = "True") =>
       /\ StoredAfter(last'.req[1].name).updated_at = Isoformat(fs'.clock)
       /\ (SavedBefore(last'.req[1].name)
            /\ StoredBefore(last'.req[1].name).name = last'.req[1].name) =>
             StoredAfter(last'.req[1].name).created_at
               = StoredBefore(last'.req[1].name).created_at]_vars

\* A stored record without its two timestamps.
WithoutTimestamps(d) == [k \in DOMAIN d \ {"created_at", "updated_at"} |-> d[k]]

\* C18: loading a profile that save_profile stored and saving what was
\* loaded stores the same record again, field for field, but for the
\* timestamps: created_at stays and updated_at does not go back.
C18_RoundTrip ==
  [][(last'.op = "load_save" /\ last'.status = "True" /\ SavedBefore(last'.req[1])) =>
       /\ DOMAIN fs'.store = DOMAIN fs.store
       /\ \A k \in DOMAIN fs.store \ {get_profile_path(last'.req[1])} :
            fs'.store[k] = fs.store[k]
       /\ WithoutTimestamps(StoredAfter(last'.req[1]))
            = WithoutTimestamps(StoredBefore(last'.req[1]))
       /\ StoredAfter(last'.req[1]).created_at = StoredBefore(last'.req[1]).created_at
       /\ StoredAfter(last'.req[1]).updated_at[1]
            >= StoredBefore(last'.req[1]).updated_at[1]]_vars

\* C18 happens: a profile with every optional field set and a fan curve was
\* loaded, with the curve's keys as strings, and saved again later than it
\* was created.
C18_Witness ==
  /\ last.op = "load_save" /\ last.status = "True"
  /\ last.req = <<(<<"o", "c">>)>>
  /\ last.ret[1].fan_curve.some /\ last.ret[1].fan_curve.v.keys = "str"
  /\ last.ret[1].power_limit_watts.some /\ last.ret[1].max_clock_mhz.some
  /\ fs.store[<<"o", "c">>] = last.ret[1]
  /\ last.ret[1].created_at # <<>>
  /\ last.ret[1].updated_at[1] > last.ret[1].created_at[1]

(***************************************************************************)
(* The fan page and the fan-curve loop (ui/fans.py)                        *)
(***************************************************************************)
Abs(x) == IF x < 0 THEN -x ELSE x

\* sorted(curve.keys())
RECURSIVE Sorted(_)
Sorted(S) ==
  IF S = {} THEN <<>>
  ELSE LET m == CHOOSE x \in S : \A y \in S : x <= y
       IN <<m>> \o Sorted(S \ {m})

\* A float that is the quotient of two ints: the quotients computed here have
\* a denominator below 100 and lie at least 1/100 away from any integer they
\* are not equal to, so the rounding of double arithmetic never moves one
\* across an integer.
Whole(n) == [num |-> n, den |-> 1]

\* A mutation of int() that rounds up.
IntOfRoundingUp(x) == -((-x.num) \div x.den)

\* int(x): truncation toward zero.
IntOf(x) == IF x.num >= 0 THEN x.num \div x.den ELSE -((-x.num) \div x.den)

\* s1 + (s2 - s1) * (temp - t1) / (t2 - t1)
Linear(t1, s1, t2, s2, temp) ==
  [num |-> s1 * (t2 - t1) + (s2 - s1) * (temp - t1), den |-> t2 - t1]

\* The for loop of lines 148-155: the first bracket that holds temp decides.
RECURSIVE InterpolateFrom(_, _, _, _)
InterpolateFrom(curve, sorted_temps, temp, i) ==
  IF i > Len(sorted_temps) - 1 THEN Whole(curve[sorted_temps[1]])
  ELSE IF sorted_temps[i] <= temp /\ temp <= sorted_temps[i + 1]
    THEN Linear(sorted_temps[i], curve[sorted_temps[i]],
                sorted_temps[i + 1], curve[sorted_temps[i + 1]], temp)
  ELSE InterpolateFrom(curve, sorted_temps, temp, i + 1)

\* Lines 143-155: target_speed before the floor and int().
Interpolate(curve, sorted_temps, temp) ==
  IF temp <= sorted_temps[1] THEN Whole(curve[sorted_temps[1]])
  ELSE IF temp >= sorted_temps[Len(sorted_temps)]
    THEN Whole(curve[sorted_temps[Len(sorted_temps)]])
  ELSE InterpolateFrom(curve, sorted_temps, temp, 1)

RampFrom(current, target, max_step) ==
  IF target > current THEN Min(target, current + max_step)
  ELSE IF target < current THEN Max(target, current - max_step)
  ELSE target

\* A mutation of _apply_ramp_limit that does not limit.
apply_ramp_limit_unlimited(state, target, max_step) == target

\* A mutation of _apply_ramp_limit that never leaves the speed commanded last.
apply_ramp_limit_halted(state, target, max_step) ==
  IF state.commanded_speed.some THEN state.commanded_speed.v ELSE target

\* _apply_ramp_limit: current = self.state.commanded_speed or target
apply_ramp_limit(state, target, max_step) ==
  RampFrom(IF state.commanded_speed.some /\ state.commanded_speed.v # 0
             THEN state.commanded_speed.v ELSE target,
           target, max_step)

\* The handler touches fields of the FanState outside `with self._lock`.
Bare(w, fields) == [w EXCEPT !.bare = @ \cup fields]

\* A mutation that records the speed as commanded whether or not the write
\* raised.
CommandedAnyway(w, target_speed) ==
  [w EXCEPT !.ui.state.commanded_speed = Some(target_speed)]

\* self.state.commanded_speed = target_speed, reached when the write before
\* it did not raise.
Commanded(w, target_speed) ==
  IF Ok(w) THEN Bare([w EXCEPT !.ui.state.commanded_speed = Some(target_speed)],
                     {"commanded_speed"})
  ELSE w

\* Ramp, write, record: lines 135-137 and 162-166.
CommandSpeed(w, target_speed) ==
  Commanded(CtlSetAllFansSpeed("gateway", w, target_speed), target_speed)

CommandRamped(w, target_speed) ==
  CommandSpeed(w, apply_ramp_limit(w.ui.state, target_speed,
                                   w.ui.config.fan_ramp_step_percent))

\* ret keeps the locals of the iteration: temp and, when the target was
\* recomputed, int(target_speed).
Locals(w, locals) == [w EXCEPT !.ret = locals]

\* Lines 140 and 157-166, given int(target_speed) of the interpolation.
KeepTarget(w, temp, interpolated) ==
  Locals(
    CommandRamped(
      [w EXCEPT !.ui.daemon.last_curve_temp = Some(temp),
                !.ui.daemon.last_target_speed =
                   Some(Max(w.ui.config.min_fan_speed_percent, interpolated))],
      Max(w.ui.config.min_fan_speed_percent, interpolated)),
    <<temp, interpolated>>)

\* A mutation of the hysteresis test that also holds at the threshold.
ReusesAtThreshold(w, temp) ==
  /\ w.ui.daemon.last_curve_temp.some
  /\ Abs(temp - w.ui.daemon.last_curve_temp.v) <= w.ui.config.fan_hysteresis_celsius
  /\ w.ui.daemon.last_target_speed.some

\* Lines 126-138: within the hysteresis band of the last recomputation the
\* previous target is used again.
Reuses(w, temp) ==
  /\ w.ui.daemon.last_curve_temp.some
  /\ Abs(temp - w.ui.daemon.last_curve_temp.v) < w.ui.config.fan_hysteresis_celsius
  /\ w.ui.daemon.last_target_speed.some

\* Lines 117-166, once the temperature was read.
CurveStep(w, temp) ==
  IF Reuses(w, temp)
    THEN Locals(CommandRamped(w, w.ui.daemon.last_target_speed.v), <<temp>>)
  ELSE KeepTarget(w, temp,
         IntOf(Interpolate(w.ui.state.curve, Sorted(DOMAIN w.ui.state.curve), temp)))

\* except Exception as e: logger.error(...)
Logged(w) == IF Ok(w) THEN w ELSE [w EXCEPT !.caught = w.exc, !.exc = NoExc]

AfterStats(w) ==
  IF ~Ok(w) THEN w
  ELSE CurveStep([w EXCEPT !.ui.state.current_temp = w.ret[1]], w.ret[1])

\* FanCurveDaemon._update_fan_from_curve
update_fan_from_curve(w) ==
  IF DOMAIN w.ui.state.curve = {} THEN w
  ELSE Logged(AfterStats(GwGetGpuStats(w)))

\* FanState.set_mode
set_mode(state, mode, speed) ==
  [state EXCEPT !.mode = mode,
                !.commanded_speed = IF mode = "manual" THEN speed
                                    ELSE IF mode = "auto" THEN None ELSE @]

\* FanCurveDaemon.stop, and the page dropping its daemon: _running is
\* cleared, the event set and the thread joined for at most 3 seconds.  A
\* sleeping or ready thread leaves the loop at once; a thread inside a write
\* that takes longer (the helper has up to 30 seconds) is left behind, and so
\* is every earlier thread of the daemon that is inside a write.
InWrite(t) == t.pc = "writing"
LeftBehind(u) ==
  (IF u.daemon.pc = "writing" THEN <<u.daemon.pending>> ELSE <<>>)
  \o [i \in 1 .. Len(SelectSeq(u.previous, InWrite)) |->
        SelectSeq(u.previous, InWrite)[i].pending]

StopDaemon(w) ==
  [w EXCEPT !.ui.stale = @ \o LeftBehind(w.ui), !.ui.previous = <<>>,
            !.ui.daemon = NoDaemon]

AutoMode(w) == IF Ok(w) THEN [w EXCEPT !.ui.state = set_mode(@, "auto", None)] ELSE w

\* FansPage._set_auto_mode
set_auto_mode(w) == Logged(AutoMode(CtlSetAllFansAuto("gateway", w)))

\* FansPage._on_mode_changed
on_mode_changed(w, selected) ==
  IF selected = 0 THEN set_auto_mode([StopDaemon(w) EXCEPT !.ui.selected = selected])
  ELSE [StopDaemon(w) EXCEPT !.ui.selected = selected]

ManualMode(w, speed) ==
  IF Ok(w) THEN [w EXCEPT !.ui.state = set_mode(@, "manual", Some(speed))] ELSE w

\* FansPage._on_manual_apply
on_manual_apply(w, speed) ==
  Logged(ManualMode(CtlSetAllFansSpeed("gateway", w, speed), speed))

\* FansPage._on_apply_curve with FanCurveDaemon.start: a curve of fewer than
\* two points is refused.
on_apply_curve(w, curve) ==
  IF Cardinality(DOMAIN curve) < 2 THEN w
  ELSE [w EXCEPT !.ui.state = [set_mode(@, "curve", None) EXCEPT !.curve = curve],
                 !.ui.daemon = [NoDaemon EXCEPT !.running = TRUE, !.pc = "ready"]]

\* FansPage._on_stop_curve
on_stop_curve(w) == set_auto_mode(StopDaemon(w))

\* ---- the fan page's actions ----
UiStep(op, req, w) ==
  /\ dev' = w.dev
  /\ fs' = w.fs
  /\ ui' = w.ui
  /\ last' = Completed(op, "fans", req, w)

\* One iteration of _run_loop, while the daemon runs.
CurveIteration(Pl) ==
  /\ ui.daemon.running
  /\ \E plan \in Pl :
       UiStep("update_fan_from_curve", <<>>, update_fan_from_curve(NewWorld("gateway", plan)))

\* At most MaxStale threads are left behind at a time.
StaleRoom == LeftBehind(ui) = <<>> \/ Len(ui.stale) + Len(LeftBehind(ui)) <= MaxStale

FansModeChanged(Pl) ==
  \E selected \in {0, 1, 2}, plan \in Pl :
    /\ selected # ui.selected
    /\ StaleRoom
    /\ UiStep("on_mode_changed", <<selected>>,
              on_mode_changed(NewWorld("gateway", plan), selected))

\* The manual page is shown while the dropdown is on its entry.
FansManualApply(Speeds, Pl) ==
  /\ ui.selected = 1
  /\ \E speed \in Speeds, plan \in Pl :
       UiStep("on_manual_apply", <<speed>>, on_manual_apply(NewWorld("gateway", plan), speed))

\* The apply button of the curve page can be pressed while no curve is active.
FansApplyCurve(Curves) ==
  /\ ui.selected = 2 /\ ~ui.daemon.running
  /\ \E curve \in Curves :
       UiStep("on_apply_curve", <<curve>>, on_apply_curve(NewWorld("gateway", NoFault), curve))

\* The stop button can be pressed while a curve is active.
FansStopCurve(Pl) ==
  /\ ui.selected = 2 /\ ui.daemon.running
  /\ StaleRoom
  /\ \E plan \in Pl :
       UiStep("on_stop_curve", <<>>, on_stop_curve(NewWorld("gateway", plan)))

\* ---- the specification of the fan-curve loop ----
\* Curves as the editor hands them over: temperatures 20..100, speeds
\* MIN_FAN_SPEED_PERCENT..100, in any shape.
SpecCurves ==
  {(30 :> 30) @@ (70 :> 65) @@ (90 :> 100),
   (40 :> 80) @@ (60 :> 35),
   (50 :> 40)}

CurveTemps == {20, 50, 73, 95}

CurvePlans ==
  {NoFault, [NoFault EXCEPT !.broken = {"temperature"}],
   [NoFault EXCEPT !.elevAt = 1, !.elevKind = "dismissed"]}

\* The configured floor is the default, or above the lowest curve points.
InitCurve ==
  /\ dev = InitDevice(1)
  /\ fs = NoFiles
  /\ \E floor \in {30, 40} :
       ui = [NoUi EXCEPT !.config.min_fan_speed_percent = floor]
  /\ last = NoOp

NextCurve ==
  \/ CurveIteration(CurvePlans)
  \/ FansModeChanged({NoFault})
  \/ FansManualApply({40}, {NoFault})
  \/ FansApplyCurve(SpecCurves)
  \/ FansStopCurve({NoFault})
  \/ TempChange(CurveTemps)

SpecCurve == InitCurve /\ [][NextCurve]_vars

\* The loop iteration just completed, and it recomputed its target.
CurveIterated == last.op = "update_fan_from_curve"
Recomputed == CurveIterated /\ Len(last.ret) = 2

\* t1 < t2 are neighbouring control points of the curve.
Neighbours(curve, t1, t2) ==
  /\ t1 \in DOMAIN curve /\ t2 \in DOMAIN curve /\ t1 < t2
  /\ \A t \in DOMAIN curve : ~(t1 < t /\ t < t2)

\* e is p1 + (p2 - p1) * (T - t1) / (t2 - t1), truncated.
IsTruncatedLine(e, curve, t1, t2, T) ==
  /\ e * (t2 - t1) <= curve[t1] * (t2 - t1) + (curve[t2] - curve[t1]) * (T - t1)
  /\ curve[t1] * (t2 - t1) + (curve[t2] - curve[t1]) * (T - t1) < (e + 1) * (t2 - t1)

\* C19: when the loop recomputes at temperature T, the value it takes from
\* the curve is the percent of the lowest control point for T at or below
\* it, the percent of the highest for T at or above it, and between two
\* neighbouring points the line through them, truncated to an integer.  The
\* target the loop keeps is that value, raised to the configured minimum
\* fan speed when it lies below.
C19_Interpolation ==
  Recomputed =>
    /\ \A lo \in DOMAIN ui.state.curve :
         ((\A t \in DOMAIN ui.state.curve : lo <= t) /\ last.ret[1] <= lo) =>
           last.ret[2] = ui.state.curve[lo]
    /\ \A hi \in DOMAIN ui.state.curve :
         ((\A t \in DOMAIN ui.state.curve : t <= hi) /\ last.ret[1] >= hi) =>
           last.ret[2] = ui.state.curve[hi]
    /\ \A t1, t2 \in DOMAIN ui.state.curve :
         (Neighbours(ui.state.curve, t1, t2) /\ t1 <= last.ret[1] /\ last.ret[1] <= t2) =>
           IsTruncatedLine(last.ret[2], ui.state.curve, t1, t2, last.ret[1])
    /\ last.ret[1] = dev.temp
    /\ ui.daemon.last_curve_temp = Some(dev.temp)
    /\ ui.daemon.last_target_speed
         = Some(Max(ui.config.min_fan_speed_percent, last.ret[2]))

\* C19 happens: over the curve {30:30, 70:65, 90:100} the loop recomputed at
\* 50 degrees and took 47.
C19_Witness ==
  /\ Recomputed
  /\ ui.state.curve = (30 :> 30) @@ (70 :> 65) @@ (90 :> 100)
  /\ last.ret = <<50, 47>>
  /\ ui.daemon.last_target_speed = Some(47)

\* The speed the iteration handed to set_all_fans_speed.
LoopCommanded(l) == l.calls[1].a.v

\* C20: the speed an iteration of the loop commands lies within the ramp
\* step of the speed commanded last (commanded_speed before the iteration),
\* between that speed and the iteration's target.
C20_RampLimited ==
  [][(last'.op = "update_fan_from_curve" /\ last'.calls # <<>>
      /\ ui.state.commanded_speed.some) =>
       /\ last'.calls[1].m = "set_all_fans_speed"
       /\ Abs(LoopCommanded(last') - ui.state.commanded_speed.v)
            <= ui.config.fan_ramp_step_percent
       /\ Min(ui.state.commanded_speed.v, ui'.daemon.last_target_speed.v)
            <= LoopCommanded(last')
       /\ LoopCommanded(last')
            <= Max(ui.state.commanded_speed.v, ui'.daemon.last_target_speed.v)
       /\ (ui.state.commanded_speed.v # ui'.daemon.last_target_speed.v) =>
            LoopCommanded(last') # ui.state.commanded_speed.v
       /\ last'.exc.cls = "none"
       /\ (last'.caught.cls = "none") =>
            ui'.state.commanded_speed = Some(LoopCommanded(last'))]_vars

\* C20 happens: 40 was commanded last, the target is 70 and the loop has
\* just commanded 45.
C20_Witness ==
  /\ CurveIterated /\ last.calls # <<>>
  /\ ui.daemon.last_target_speed = Some(70)
  /\ ui.state.commanded_speed = Some(45)
  /\ LoopCommanded(last) = 45
  /\ ui.config.fan_ramp_step_percent = 5

(***************************************************************************)
(* Hysteresis of the fan-curve loop                                        *)
(***************************************************************************)
\* Readings around 60 degrees: one and two degrees off, and 64, which is
\* four off 60 and exactly the threshold off 61.
HysteresisTemps == {60, 61, 62, 64}

InitHysteresis ==
  /\ dev = [InitDevice(1) EXCEPT !.temp = 60]
  /\ fs = NoFiles
  /\ ui = [NoUi EXCEPT !.selected = 2]
  /\ last = NoOp

NextHysteresis ==
  \/ CurveIteration({NoFault, [NoFault EXCEPT !.broken = {"temperature"}]})
  \/ FansApplyCurve({(30 :> 30) @@ (70 :> 65) @@ (90 :> 100)})
  \/ FansStopCurve({NoFault})
  \/ TempChange(HysteresisTemps)

SpecHysteresis == InitHysteresis /\ [][NextHysteresis]_vars

\* The iteration of this step read the temperature.
IterationRead == last'.op = "update_fan_from_curve" /\ last'.ret # <<>>

\* C21: an iteration that reads a temperature less than the threshold away
\* from last_curve_temp uses the previous target again and leaves
\* last_curve_temp and the target as they are; any other iteration
\* recomputes the target from the curve and makes the reading the new
\* last_curve_temp.
C21_Hysteresis ==
  [][IterationRead =>
       /\ last'.ret[1] = dev.temp
       /\ (ui.daemon.last_curve_temp.some
            /\ Abs(dev.temp - ui.daemon.last_curve_temp.v)
                 < ui.config.fan_hysteresis_celsius) =>
             /\ Len(last'.ret) = 1
             /\ ui'.daemon.last_curve_temp = ui.daemon.last_curve_temp
             /\ ui'.daemon.last_target_speed = ui.daemon.last_target_speed
             /\ last'.calls[1].a.v
                  = apply_ramp_limit(ui.state, ui.daemon.last_target_speed.v,
                                     ui.config.fan_ramp_step_percent)
       /\ ~(ui.daemon.last_curve_temp.some
             /\ Abs(dev.temp - ui.daemon.last_curve_temp.v)
                  < ui.config.fan_hysteresis_celsius) =>
             /\ Len(last'.ret) = 2
             /\ ui'.daemon.last_curve_temp = Some(dev.temp)
             /\ ui'.daemon.last_target_speed
                  = Some(Max(ui.config.min_fan_speed_percent,
                             IntOf(Interpolate(ui.state.curve,
                                               Sorted(DOMAIN ui.state.curve),
                                               dev.temp))))]_vars

\* C21 happens: the target was computed at 60 degrees, and a reading of
\* 62, two off the last recomputation, has just used it again.
C21_Witness ==
  /\ CurveIterated /\ last.ret = <<62>>
  /\ ui.daemon.last_curve_temp = Some(60)
  /\ ui.daemon.last_target_speed = Some(56)
  /\ ui.state.current_temp = 62

(***************************************************************************)
(* The loop thread beside the foreground thread                            *)
(***************************************************************************)
\* Line 104: the thread sleeps until the next tick.
Sleeping(w) == [w EXCEPT !.ui.daemon.pc = "sleeping"]

\* The thread enters set_all_fans_speed with the ramped target.
PendingWrite(w, target_speed) ==
  Bare([w EXCEPT !.ui.daemon.pc = "writing",
                 !.ui.daemon.pending =
                    apply_ramp_limit(w.ui.state, target_speed,
                                     w.ui.config.fan_ramp_step_percent)],
       {"commanded_speed"})

\* Lines 140 and 157-162.
KeepTargetPending(w, temp, interpolated) ==
  Locals(
    PendingWrite(
      [w EXCEPT !.ui.daemon.last_curve_temp = Some(temp),
                !.ui.daemon.last_target_speed =
                   Some(Max(w.ui.config.min_fan_speed_percent, interpolated))],
      Max(w.ui.config.min_fan_speed_percent, interpolated)),
    <<temp, interpolated>>)

\* Lines 117-162, up to the call of set_all_fans_speed.
CurveStepPending(w, temp) ==
  IF Reuses(w, temp)
    THEN Locals(PendingWrite(w, w.ui.daemon.last_target_speed.v), <<temp>>)
  ELSE KeepTargetPending(w, temp,
         IntOf(Interpolate(w.ui.state.curve, Sorted(DOMAIN w.ui.state.curve), temp)))

\* The read failed: the iteration is over, the thread sleeps.
PendingAfterStats(w) ==
  IF ~Ok(w) THEN Sleeping(Logged(w))
  ELSE CurveStepPending(Bare([w EXCEPT !.ui.state.current_temp = w.ret[1]],
                             {"current_temp", "curve"}),
                        w.ret[1])

\* _update_fan_from_curve up to its write.
begin_iteration(w) ==
  IF DOMAIN w.ui.state.curve = {} THEN Sleeping(Bare(w, {"curve"}))
  ELSE PendingAfterStats(GwGetGpuStats(Bare(w, {"curve"})))

\* The write of an iteration returns or raises: lines 136-137 and 165-169.
finish_write(w, target_speed) ==
  Logged(Commanded(CtlSetAllFansSpeed("gateway", w, target_speed), target_speed))

RemoveAt(seq, i) == SubSeq(seq, 1, i - 1) \o SubSeq(seq, i + 1, Len(seq))

ThreadStep(op, via, req, w) ==
  \E done \in {w} :
    /\ dev' = done.dev
    /\ fs' = done.fs
    /\ ui' = done.ui
    /\ last' = Completed(op, via, req, done)

\* _stop_event.wait(timeout=1.5) times out.
LoopTick ==
  /\ ui.daemon.running /\ ui.daemon.pc = "sleeping"
  /\ ui' = [ui EXCEPT !.daemon.pc = "ready"]
  /\ UNCHANGED <<dev, fs, last>>

\* The loop test holds and the iteration runs up to its write.
IterationBegin(Pl) ==
  /\ ui.daemon.running /\ ui.daemon.pc = "ready"
  /\ \E plan \in Pl :
       ThreadStep("begin_iteration", "loop", <<>>, begin_iteration(NewWorld("gateway", plan)))

\* The write of the iteration in flight comes back.
IterationEnd(Pl) ==
  /\ ui.daemon.running /\ ui.daemon.pc = "writing"
  /\ \E plan \in Pl :
       ThreadStep("finish_iteration", "loop", <<ui.daemon.pending>>,
                  Sleeping(finish_write(NewWorld("gateway", plan), ui.daemon.pending)))

\* The write of a thread left behind comes back; its loop test fails then.
StaleIterationEnd(Pl) ==
  \E i \in 1 .. Len(ui.stale), plan \in Pl :
    \E w \in {NewWorld("gateway", plan)} :
      ThreadStep("finish_iteration", "stale", <<ui.stale[i]>>,
                 finish_write([w EXCEPT !.ui.stale = RemoveAt(@, i)], ui.stale[i]))

\* The poller of the window has the statistics: it stores the reported speed
\* and the temperature, has get_display_speed format them under the lock,
\* and reads mode and commanded_speed for the labels.
StatsPolled(w) ==
  IF ~Ok(w) THEN Logged(w)
  ELSE Bare([w EXCEPT !.ui.state.reported_speed = Some(GetFanSpeed(Reader(w), 0)),
                      !.ui.state.current_temp = w.ret[1]],
            {"reported_speed", "current_temp", "mode"}
              \cup (IF w.ui.state.mode = "manual" THEN {"commanded_speed"} ELSE {}))

\* FansPage.update_stats
update_stats(w) == StatsPolled(GwGetGpuStats(w))

\* The one-second timer of the window fires.
FansUpdateStats(Pl) ==
  \E plan \in Pl :
    \E w \in {NewWorld("gateway", plan)} :
      ThreadStep("update_stats", "poller", <<>>, update_stats(w))

\* ---- the specification of the threads ----
\* A write of the loop succeeds, or its authentication is dismissed.
ThreadPlans == {NoFault, [NoFault EXCEPT !.elevAt = 1, !.elevKind = "dismissed"]}

\* The temperature is read, or the read fails.
BeginPlans == {NoFault, [NoFault EXCEPT !.broken = {"temperature"}]}

InitThreads ==
  /\ dev = [InitDevice(1) EXCEPT !.temp = 50]
  /\ fs = NoFiles
  /\ ui = NoUi
  /\ last = NoOp

NextThreads ==
  \/ LoopTick
  \/ IterationBegin(BeginPlans)
  \/ IterationEnd(ThreadPlans)
  \/ StaleIterationEnd({NoFault})
  \/ FansModeChanged({NoFault})
  \/ FansManualApply({40}, {NoFault})
  \/ FansApplyCurve({(30 :> 30) @@ (70 :> 65) @@ (90 :> 100)})
  \/ FansStopCurve(ThreadPlans)
  \/ FansUpdateStats(BeginPlans)

SpecThreads == InitThreads /\ [][NextThreads]_vars

\* The loop thread is scheduled: its wait times out (WF of LoopTick), its
\* iteration runs and the write it waits for comes back (subprocess.run has
\* a timeout). The last two are the weak fairness of IterationBegin and of
\* IterationEnd with ENABLED written out as the guard of the action, which
\* always changes the position of the thread.
SpecThreadsFair ==
  /\ InitThreads /\ [][NextThreads]_vars
  /\ WF_vars(LoopTick)
  /\ \/ []<>~(ui.daemon.running /\ ui.daemon.pc = "ready")
     \/ []<><<IterationBegin(BeginPlans)>>_vars
  /\ \/ []<>~(ui.daemon.running /\ ui.daemon.pc = "writing")
     \/ []<><<IterationEnd(ThreadPlans)>>_vars

\* The thread of the running daemon has just ended an iteration that failed.
LoopFailed ==
  /\ ui.daemon.running /\ ui.daemon.pc = "sleeping"
  /\ last.via = "loop" /\ last.caught.cls # "none"

\* C22: an iteration whose temperature read or fan write raises leaves
\* commanded_speed as it was and the loop running, asleep until the next
\* tick; and unless the daemon is stopped the thread wakes again and runs
\* another iteration.
C22_LoopSurvives ==
  /\ [][(ui.daemon.pc \in {"ready", "writing"} /\ last'.via = "loop"
          /\ ui'.daemon.pc = "sleeping" /\ last'.caught.cls # "none") =>
           /\ ui'.state.commanded_speed = ui.state.commanded_speed
           /\ ui'.daemon.running
           /\ last'.exc.cls = "none"]_vars
  /\ (LoopFailed ~> (~ui.daemon.running \/ ui.daemon.pc = "ready"))
  /\ ((ui.daemon.running /\ ui.daemon.pc = "ready")
        ~> (~ui.daemon.running \/ ui.daemon.pc \in {"sleeping", "writing"}))

\* C22 happens: the write of an iteration failed, the speed it asked for
\* is not the commanded speed, and the thread sleeps until the next tick.
C22_Witness ==
  /\ LoopFailed /\ last.op = "finish_iteration"
  /\ last.caught.cls = "PrivilegedControllerError"
  /\ ui.state.commanded_speed # Some(last.req[1])

\* C23: once stop() has returned, the thread of the stopped daemon writes
\* no fan speed and updates no field of FanState: a step of a thread that
\* stop() left behind changes neither the device nor the FanState.
C23_StopIsFinal ==
  [][(last'.via = "stale" /\ Len(ui'.stale) < Len(ui.stale)) =>
       (dev' = dev /\ ui'.state = ui.state)]_vars

\* The loop threads of the process that are inside _run_helper.
InFlight(u) == Len(u.stale) + (IF u.daemon.pc = "writing" THEN 1 ELSE 0)

\* C26: the process has at most one elevated helper in flight: no two loop
\* threads are inside a write together, and no handler of the page has run
\* a helper while a loop thread was inside one.
C26_OneHelperAtATime ==
  /\ InFlight(ui) <= 1
  /\ ~(last.via = "fans" /\ last.spawns > 0 /\ InFlight(ui) > 0)

\* C27: FanState.mode is "curve" exactly when a fan-curve loop is running.
C27_CurveModeIffLoop == (ui.state.mode = "curve") <=> ui.daemon.running

\* C28: the loop thread and the poller touch the fields of the FanState only
\* while they hold its lock.
C28_LockHeld == last.via \in {"loop", "stale", "poller"} => last.bare = {}

(***************************************************************************)
(* NVMLController.get_gpu_stats                                            *)
(***************************************************************************)
\* The samples the rolling buffer keeps.
ClockWindow == 30

\* thermal_threshold = 83 when the threshold cannot be read.
ThresholdFallback == 83

\* What the device reports for the readings that dev does not hold.
Telemetry ==
  [power_draw |-> 150, gpu_util |-> 40, mem_util |-> 20,
   memory_used_mb |-> 1024, memory_total_mb |-> 8192, memory_clock |-> 7000,
   throttle_reasons |-> {"Power (SW)", "Thermal (HW)"},
   pcie_gen |-> 4, pcie_width |-> 16, pcie_gen_max |-> 4, pcie_width_max |-> 16,
   thermal_threshold |-> 90, memory_errors |-> 2]

\* try: value = nvml...; except pynvml.NVMLError: value = fallback
Reading(w, what, value, fallback) == IF Broken(w, what) THEN fallback ELSE value

RECURSIVE SumSeq(_)
SumSeq(samples) == IF samples = <<>> THEN 0 ELSE Head(samples) + SumSeq(Tail(samples))

\* sum(self._clock_samples) // len(self._clock_samples) if self._clock_samples else 0
Mean(samples) == IF samples = <<>> THEN 0 ELSE SumSeq(samples) \div Len(samples)

\* A mutation that drops the newest sample of a full buffer.
DropNewest(samples) ==
  IF Len(samples) > ClockWindow THEN SubSeq(samples, 1, ClockWindow) ELSE samples

\* if len(self._clock_samples) > 30: self._clock_samples.pop(0)
DropOldest(samples) == IF Len(samples) > ClockWindow THEN Tail(samples) ELSE samples

\* The peak and the rolling buffer after a call that read core_clock.
Sampled(facade, core_clock) ==
  [facade EXCEPT !.peak_core_clock = Max(@, core_clock),
                 !.clock_samples = DropOldest(Append(@, core_clock)),
                 !.seen = Append(@, core_clock)]

\* The reads of get_gpu_stats outside an inner try: their failure reaches
\* the outer except and is raised as NVMLError.
Mandatory == {"temperature", "memory"}

\* The GPUStats the call returns.
GPUStats(w, core_clock, facade) ==
  [temperature_celsius |-> w.dev.temp,
   fan_speed_percent |-> Reading(w, "fan_speed", w.dev.speed[0], 0),
   power_draw_watts |-> Reading(w, "power_draw", Telemetry.power_draw, 0),
   power_limit_watts |-> Reading(w, "power_limit", w.dev.power \div MW_PER_WATT, 0),
   gpu_utilization_percent |-> Reading(w, "utilization", Telemetry.gpu_util, 0),
   memory_utilization_percent |-> Reading(w, "utilization", Telemetry.mem_util, 0),
   memory_used_mb |-> Telemetry.memory_used_mb,
   memory_total_mb |-> Telemetry.memory_total_mb,
   core_clock_mhz |-> core_clock,
   memory_clock_mhz |-> Reading(w, "memory_clock", Telemetry.memory_clock, 0),
   throttle_reasons |-> Reading(w, "throttle", Telemetry.throttle_reasons, {}),
   peak_core_clock_mhz |-> facade.peak_core_clock,
   pcie_gen |-> Reading(w, "pcie", Telemetry.pcie_gen, 0),
   pcie_width |-> Reading(w, "pcie", Telemetry.pcie_width, 0),
   pcie_gen_max |-> Reading(w, "pcie", Telemetry.pcie_gen_max, 0),
   pcie_width_max |-> Reading(w, "pcie", Telemetry.pcie_width_max, 0),
   thermal_threshold_celsius |->
     Reading(w, "threshold", Telemetry.thermal_threshold, ThresholdFallback),
   thermal_headroom_celsius |->
     Reading(w, "threshold", Telemetry.thermal_threshold, ThresholdFallback) - w.dev.temp,
   power_limit_active |->
     \E r \in Reading(w, "throttle", Telemetry.throttle_reasons, {}) :
       r \in {"Power (SW)", "Power (HW)"},
   avg_core_clock_mhz |-> Mean(facade.clock_samples),
   memory_errors |-> Reading(w, "ecc", Telemetry.memory_errors, 0)]

\* The rest of the call once the core clock is read: the sample is stored,
\* then the statistics are built from the instance.
StatsBuilt(w, core_clock) ==
  Return(w, <<GPUStats(w, core_clock, w.ui.facade)>>)

\* NVMLController.get_gpu_stats, the device reporting the core clock `clock`.
get_gpu_stats(w, clock) ==
  IF Mandatory \cap w.plan.broken # {}
    THEN Raise(w, "NVMLError", "Failed to get GPU stats")
  ELSE StatsBuilt([w EXCEPT !.ui.facade =
                              Sampled(@, Reading(w, "core_clock", clock, 0))],
                  Reading(w, "core_clock", clock, 0))

\* All samples of the buffer are equal.
Steady(samples) == \A i \in 1 .. Len(samples) : samples[i] = samples[1]

\* The clock the device reports changes only while the buffer is steady,
\* and the instance is called MaxSeen times at most.
FeedAllowed(core_clock) ==
  /\ Len(ui.facade.seen) < MaxSeen
  /\ \/ Steady(ui.facade.clock_samples)
     \/ /\ ui.facade.clock_samples # <<>>
        /\ core_clock = ui.facade.clock_samples[Len(ui.facade.clock_samples)]

\* A caller asks the facade for the statistics.
FacadeGetStats(Clocks, Pl) ==
  \E clock \in Clocks, plan \in Pl :
    /\ FeedAllowed(IF "core_clock" \in plan.broken THEN 0 ELSE clock)
    /\ \E w \in {get_gpu_stats(NewWorld("direct", plan), clock)} :
         /\ dev' = w.dev
         /\ fs' = w.fs
         /\ ui' = w.ui
         /\ last' = Completed("get_gpu_stats", "direct",
                              [clock |-> clock, broken |-> plan.broken], w)

\* ---- the specification of the statistics ----
StatClocks == {0, 100, 300}

\* The reads of get_gpu_stats that a plan can break.
StatReadings ==
  {"temperature", "utilization", "memory", "fan_speed", "pcie", "ecc",
   "throttle", "threshold", "core_clock"}

\* No read fails, one fails, or two optional ones fail together.
StatsPlans ==
  {NoFault, [NoFault EXCEPT !.broken = {"fan_speed", "pcie"}]}
    \cup {[NoFault EXCEPT !.broken = {r}] : r \in StatReadings}

InitStats ==
  /\ dev = [InitDevice(1) EXCEPT !.speed = [f \in Fans |-> 55]]
  /\ fs = NoFiles
  /\ ui = NoUi
  /\ last = NoOp

NextStats == FacadeGetStats(StatClocks, StatsPlans)

SpecStats == InitStats /\ [][NextStats]_vars

\* The optional reads fall back one by one, and the call fails exactly when
\* a read of `core` fails.
ReadsFallBack(core) ==
  last.op = "get_gpu_stats" =>
    IF last.req.broken \cap core # {} THEN last.exc.cls = "NVMLError"
    ELSE /\ last.exc.cls = "none"
         /\ last.ret[1].fan_speed_percent =
              (IF "fan_speed" \in last.req.broken THEN 0 ELSE dev.speed[0])
         /\ last.ret[1].pcie_gen =
              (IF "pcie" \in last.req.broken THEN 0 ELSE Telemetry.pcie_gen)
         /\ last.ret[1].pcie_width =
              (IF "pcie" \in last.req.broken THEN 0 ELSE Telemetry.pcie_width)
         /\ last.ret[1].memory_errors =
              (IF "ecc" \in last.req.broken THEN 0 ELSE Telemetry.memory_errors)
         /\ last.ret[1].throttle_reasons =
              (IF "throttle" \in last.req.broken THEN {}
               ELSE Telemetry.throttle_reasons)
         /\ last.ret[1].thermal_threshold_celsius =
              (IF "threshold" \in last.req.broken THEN ThresholdFallback
               ELSE Telemetry.thermal_threshold)

\* temperature, utilization and memory, the fields the contract calls core.
CoreReadings == {"temperature", "utilization", "memory"}

\* C24: get_gpu_stats does not fail when an optional read fails (fan speed,
\* PCIe state, ECC counter, throttle bitmask, thermal threshold): each such
\* field falls back to its default on its own; it fails when the read of a
\* core field (temperature, utilization, memory) fails.
C24_OptionalReadsFallBack == ReadsFallBack(CoreReadings)

\* The last n elements of seq.
LastOf(seq, n) == SubSeq(seq, Len(seq) - n + 1, Len(seq))

\* C25: after the calls made so far on the instance, the average reported
\* is the integer mean of the core clocks of the last min(n, 30) calls, the
\* buffer holds 30 samples at most, 35 calls at 100 report 100, and 29 calls
\* at 0 followed by one at 300 report 10.
C25_RollingAverage ==
  (last.op = "get_gpu_stats" /\ last.exc.cls = "none") =>
    /\ last.ret[1].avg_core_clock_mhz =
         Mean(LastOf(ui.facade.seen, Min(Len(ui.facade.seen), ClockWindow)))
    /\ Len(ui.facade.clock_samples) <= ClockWindow
    /\ ui.facade.seen = [i \in 1 .. 35 |-> 100] => last.ret[1].avg_core_clock_mhz = 100
    /\ ui.facade.seen = [i \in 1 .. 30 |-> IF i = 30 THEN 300 ELSE 0]
         => last.ret[1].avg_core_clock_mhz = 10

\* C25 happens: 29 calls at 0 and two at 300 leave 28 zeros in the buffer,
\* and the average is 600 \div 30.
C25_Witness ==
  /\ last.op = "get_gpu_stats" /\ last.exc.cls = "none"
  /\ ui.facade.seen = [i \in 1 .. 31 |-> IF i >= 30 THEN 300 ELSE 0]
  /\ Len(ui.facade.clock_samples) = ClockWindow
  /\ last.ret[1].avg_core_clock_mhz = 20

(***************************************************************************)
(* A gateway constructed for a device index                                *)
(***************************************************************************)
\* PrivilegedController(gpu_index): the reader is NVMLController(gpu_index).
IndexedWorld(gpu_index, plan) ==
  [NewWorld("gateway", plan) EXCEPT !.gpu_index = gpu_index]

\* One call on the gateway of the device index.
IndexedStep(op, req, w) ==
  \E done \in {w} :
    /\ dev' = done.dev
    /\ fs' = done.fs
    /\ ui' = ui
    /\ last' = Completed(op, "gateway", req, done)

IndexedSetPowerLimit(Is, Ws) ==
  \E i \in Is, watts \in Ws :
    \E w \in {IndexedWorld(i, NoFault)} :
      IndexedStep("set_power_limit", [watts |-> watts], GwSetPowerLimit(w, watts))

IndexedSetFanSpeed(Is, Ps) ==
  \E i \in Is, p \in Ps, f \in Fans :
    \E w \in {IndexedWorld(i, NoFault)} :
      IndexedStep("set_fan_speed", [percent |-> p, fan |-> f], GwSetFanSpeed(w, p, f))

IndexedSetFanAuto(Is) ==
  \E i \in Is, f \in Fans :
    \E w \in {IndexedWorld(i, NoFault)} :
      IndexedStep("set_fan_auto", [fan |-> f], GwSetFanAuto(w, f))

IndexedGetGpuInfo(Is) ==
  \E i \in Is :
    \E w \in {IndexedWorld(i, NoFault)} :
      IndexedStep("get_gpu_info", <<>>, GwGetGpuInfo(w))

\* ---- the specification of the indexed gateway ----
\* The machine has two devices.
GpuIndices == {0, 1}

InitIndexed ==
  /\ dev = InitDevice(MaxFans)
  /\ fs = NoFiles
  /\ ui = NoUi
  /\ last = NoOp

NextIndexed ==
  \/ IndexedSetPowerLimit(GpuIndices, {150, 200, 250})
  \/ IndexedSetFanSpeed(GpuIndices, {40, 60})
  \/ IndexedSetFanAuto(GpuIndices)
  \/ IndexedGetGpuInfo(GpuIndices)

SpecIndexed == InitIndexed /\ [][NextIndexed]_vars

\* C29: every device write that a call on the gateway of device i had the
\* helper make used the handle of device i, the device its reads report on.
C29_WritesOnOwnDevice ==
  last.via = "gateway" =>
    /\ \A k \in 1 .. Len(last.handles) : last.handles[k] = last.gpu_index
    /\ (last.op = "get_gpu_info" /\ last.exc.cls = "none") => last.ret[1] = last.gpu_index

(***************************************************************************)
(* Boot-time apply and interactive apply                                   *)
(***************************************************************************)
\* The settings saved under the names of the boot store.
BootStored(name) ==
  IF name = "quiet"
    THEN Profile(Some(250 * MW_PER_WATT), Some(100), Some(-200), Some(1800),
                 "manual", Some(50))
  ELSE Profile(None, None, None, None, "auto", None)

\* The device writes of a log, in order, whoever made them.
Writes(log) ==
  [k \in 1 .. Len(log) |-> [call |-> log[k].call, a |-> log[k].a, b |-> log[k].b]]

\* C30: a run of apply-boot-profile that finds its profile, nothing failing,
\* issues the device writes that ProfileManager.apply_profile issues for the
\* profile on the same device, in the same order.
C30_BootAppliesAsInteractive ==
  [][(/\ ~fs.marker
      /\ fs.boot_profile_name # ""
      /\ fs.boot_profile_name \in fs.profiles
      /\ BootRunEnded' /\ NoFileFailure') =>
       Writes(last'.log) =
         Writes(ApplyProfile(NewWorld("direct", NoFault),
                             BootStored(fs.boot_profile_name), "facade").log)]_vars

(***************************************************************************)
(* The application's automatic apply: --apply-default and apply on start  *)
(***************************************************************************)
\* BUILTIN_PROFILES with the fields that an apply reads.
BUILTIN_PROFILES ==
  {NewProfile(<<"S", "t", "o", "c", "k">>,
              [NoSettings EXCEPT !.core_clock_offset_mhz = Some(0),
                                 !.memory_clock_offset_mhz = Some(0)],
              NoCurve, FALSE, <<>>),
   NewProfile(<<"Q", "u", "i", "e", "t">>,
              [NoSettings EXCEPT !.core_clock_offset_mhz = Some(-100),
                                 !.memory_clock_offset_mhz = Some(0),
                                 !.fan_mode = "manual",
                                 !.fan_speed_percent = Some(40)],
              NoCurve, FALSE, <<>>),
   NewProfile(<<"P", "e", "r", "f", "o", "r", "m", "a", "n", "c", "e">>,
              [NoSettings EXCEPT !.core_clock_offset_mhz = Some(100),
                                 !.memory_clock_offset_mhz = Some(200)],
              NoCurve, FALSE, <<>>)}

\* The profile the path applies: the one load_profile returned, else the
\* built-in profile of that name; empty when there is neither.
DefaultCandidates(w, default_name) ==
  IF w.ret # <<>> THEN {w.ret[1]}
  ELSE {p \in BUILTIN_PROFILES : p.name = default_name}

\* _apply_default_profile from the try on, w being the state after
\* ctx.initialize() and pm.load_profile(default_name): the result of
\* apply_profile is not looked at.
DefaultApplied(w, default_name, ctl) ==
  IF ~Ok(w) THEN [Logged(w) EXCEPT !.status = "1"]
  ELSE IF DefaultCandidates(w, default_name) = {} THEN [w EXCEPT !.status = "1"]
  ELSE [ApplyProfile(w, CHOOSE p \in DefaultCandidates(w, default_name) : TRUE, ctl)
          EXCEPT !.status = "0"]

\* NVOCApplication._apply_default_profile(controller): the facade it opens
\* itself for --apply-default, the gateway of the application on start.
apply_default_profile(w, ctl) ==
  IF w.fs.default_profile = <<>> THEN [w EXCEPT !.status = "0"]
  ELSE IF ctl = "facade" /\ ~Ok(Initialize(w))
    THEN DefaultApplied(Initialize(w), w.fs.default_profile, ctl)
  ELSE DefaultApplied(load_profile(w, w.fs.default_profile), w.fs.default_profile, ctl)

\* `nvoc --apply-default` is run, or the application starts with
\* apply_default_profile_on_start set.
AppApplyDefault(Ctls, Pl) ==
  \E ctl \in Ctls, plan \in Pl :
    \E w \in {NewWorld(IF ctl = "facade" THEN "direct" ELSE "gateway", plan)} :
      \E done \in {apply_default_profile(w, ctl)} :
        /\ dev' = done.dev
        /\ fs' = done.fs
        /\ ui' = ui
        /\ last' = Completed("apply_default_profile", ctl, <<>>, done)

\* The user makes another profile the default, or none.
DefaultChange(Names) ==
  /\ \E n \in Names : fs' = [fs EXCEPT !.default_profile = n]
  /\ fs' # fs
  /\ ui' = ui
  /\ last' = NoOp
  /\ UNCHANGED dev

\* ---- the specification of the automatic applies ----
\* No default, a saved profile, a built-in one, a name that is neither.
DefaultNames == {<<>>, <<"O", "C">>, <<"Q", "u", "i", "e", "t">>, <<"U">>}

\* The store holds the profile saved as "OC"; any marker.
InitAuto ==
  /\ dev = InitDevice(1)
  /\ \E m \in BOOLEAN :
       fs = [NoFiles EXCEPT
               !.marker = m,
               !.profiles = {"quiet"},
               !.store = StorePut(@, get_profile_path(<<"O", "C">>),
                           JsonDump(to_dict(Stamped(
                             NewProfile(<<"O", "C">>,
                               [AllSettings EXCEPT
                                  !.power_limit_watts = Some(250 * MW_PER_WATT)],
                               NoCurve, FALSE, <<>>),
                             0))))]
  /\ ui = NoUi
  /\ last = NoOp

NextAuto ==
  \/ AppApplyDefault({"facade", "gateway"}, {NoFault, [NoFault EXCEPT !.broken = {"init"}]})
  \/ DefaultChange(DefaultNames)
  \/ HelperRun(BootArgvs, {NoFault})
  \/ BootApplyKilled({NoFault})
  \/ BootProfileChange({"quiet", ""})

SpecAuto == InitAuto /\ [][NextAuto]_vars

\* An automatic apply has just run.
AutoApplyRun == last.op \in {"apply-boot-profile", "apply_default_profile"}

\* C31: an automatic apply that starts while the crash marker is present
\* issues no device write.
C31_MarkerConsultedFirst ==
  [][(fs.marker /\ AutoApplyRun') => last'.log = <<>>]_vars

(***************************************************************************)
(* The profiles page: applying the selected profile                        *)
(***************************************************************************)
\* "try: apply_profile(...); toast 'Applied profile: ...'
\*  except Exception as e: toast 'Error: ...'": the value apply_profile
\* returns is dropped.
Toasted(w) ==
  IF Ok(w) THEN [w EXCEPT !.ret = <<"Applied profile">>]
  ELSE [w EXCEPT !.caught = w.exc, !.exc = NoExc, !.ret = <<"Error">>]

\* ProfilesPage._on_apply_profile, on the window's controller (the gateway)
on_apply_profile(w, profile) == Toasted(ApplyProfile(w, profile, "gateway"))

PageApply(Ps, Pl) ==
  \E profile \in Ps, plan \in Pl :
    \E w \in {NewWorld("gateway", plan)} :
      \E done \in {on_apply_profile(w, profile)} :
        /\ dev' = done.dev
        /\ fs' = done.fs
        /\ ui' = ui
        /\ last' = Completed("on_apply_profile", "gateway", profile, done)

NextPage ==
  \/ PageApply(ApplyProfiles, ApplyPlans)
  \/ ProfileApply(ApplyProfiles, ApplyPlans)

SpecPage == InitApply /\ [][NextPage]_vars

\* An apply of several steps failed after a step of it had written the device.
FailedAfterWrites ==
  /\ last.op \in {"apply_profile", "on_apply_profile"}
  /\ last.caught.cls # "none"
  /\ last.log # <<>>
  /\ last.calls # <<>>

\* C32: a multi-step apply that fails after some of its steps succeeded is
\* surfaced to its caller as a failure that identifies the failed step: the
\* page that asked for the apply shows an error naming the step.
C32_PartialFailureSurfaced ==
  (last.op = "on_apply_profile" /\ FailedAfterWrites) =>
    /\ Len(last.ret) = 2
    /\ last.ret[1] = "Error"
    /\ last.ret[2] = StepOfMethod(last.calls[Len(last.calls)].m)

(***************************************************************************)
(* apply-profile: the whole profile in one elevated invocation             *)
(***************************************************************************)
OneShotDicts == ApplyDicts \cup GatewayProfiles \cup HelperProfiles

OneShotArgvs ==
  {ArgvBlob("apply-profile", [kind |-> "object", d |-> d]) : d \in OneShotDicts}

NextOneShot ==
  \/ GatewayApplyProfile(OneShotDicts, ApplyPlans)
  \/ HelperRun(OneShotArgvs, ApplyPlans)

SpecOneShot == InitGateway /\ [][NextOneShot]_vars

\* PrivilegedController.apply_profile has just been called with a dict.
GatewayApplied ==
  last.op = "apply_profile" /\ last.via = "gateway" /\ last.req \in OneShotDicts

\* The steps the vendor writes of the last operation belong to.
StepsWritten == {StepOfWrite(last.log[i].call) : i \in 1 .. Len(last.log)}
StepsPlanned(p) == {StepOfMethod(HelperPlan(p)[i].m) : i \in 1 .. Len(HelperPlan(p))}

\* C33: the helper's apply-profile makes its controller calls in the order
\* power limit, clock offsets, fan mode/speed (an initial part of that order
\* when a step fails, all of it when it reports success), and the gateway's
\* apply_profile has every vendor write of the profile made by the helper of
\* one single elevated invocation, in that step order; after a successful
\* call the power and offsets steps the profile asks for have been written
\* (the fan step writes nothing when no fan is counted).
C33_OneInvocationInOrder ==
  /\ HelperApplied =>
       /\ IsPrefix(last.calls, HelperPlan(AppliedProfile))
       /\ WritesInStepOrder
       /\ StepsWritten \subseteq StepsPlanned(AppliedProfile)
       /\ ReportedDone => last.calls = HelperPlan(AppliedProfile)
  /\ GatewayApplied =>
       /\ last.spawns <= 1
       /\ Len(last.procs) = last.spawns
       /\ last.log # <<>> => last.spawns = 1
       /\ \A i \in 1 .. Len(last.log) : last.log[i].owner = "helper"
       /\ WritesInStepOrder
       /\ StepsWritten \subseteq StepsPlanned(last.req)
       /\ last.exc.cls = "none" =>
            /\ last.spawns = 1
            /\ (StepsPlanned(last.req) \ {4}) \subseteq StepsWritten

\* C33 happens: the gateway applied a profile with a power limit, both
\* offsets and a manual fan speed in one invocation, whose helper wrote the
\* power limit first, then the two offsets, then both fans.
C33_Witness ==
  /\ GatewayApplied /\ last.exc.cls = "none"
  /\ last.spawns = 1
  /\ StepsWritten = {1, 2, 4}
  /\ last.log[1].call = "SetPowerManagementLimit"
  /\ last.log[2].call = "SetGpcClkVfOffset"
  /\ last.log[3].call = "SetMemClkVfOffset"
  /\ Len(last.log) > 4
  /\ dev.power = 250 * MW_PER_WATT /\ dev.core = 100 /\ dev.mem = -200
  /\ \A f \in 0 .. (dev.nfans - 1) : dev.policy[f] = "manual"

(***************************************************************************)
(* All fans at once: the facade and the gateway                            *)
(***************************************************************************)
FacadeSetAllFansAuto(Pl) ==
  \E plan \in Pl :
    \E w \in {SetAllFansAuto(NewWorld("direct", plan))} :
      /\ dev' = w.dev
      /\ fs' = w.fs
      /\ ui' = ui
      /\ last' = Completed("set_all_fans_auto", "facade", <<>>, w)

\* Nothing fails, or the fan count cannot be read (get_fan_count gives 0).
AllFansPlans == {NoFault} \cup {p \in ReadFaults : p.broken = {"fan_count"}}

InitAllFans ==
  /\ \E n \in 1 .. MaxFans : dev = InitDevice(n)
  /\ fs = NoFiles
  /\ ui = NoUi
  /\ last = NoOp

NextAllFans ==
  \/ TempChange({WARNING_TEMP_CELSIUS - 1, CRITICAL_TEMP_CELSIUS})
  \/ FacadeSetAllFansSpeed({WARNING_MIN_FAN_PERCENT + Excess, FAN_FULL_PERCENT}, AllFansPlans)
  \/ FacadeSetAllFansAuto(AllFansPlans)
  \/ GatewaySetAllFansSpeed({WARNING_MIN_FAN_PERCENT + Excess, FAN_FULL_PERCENT}, AllFansPlans)
  \/ GatewaySetAllFansAuto(AllFansPlans)

SpecAllFans == InitAllFans /\ [][NextAllFans]_vars

\* A set_all_fans_speed or set_all_fans_auto has just returned.
AllFansDone ==
  /\ last.op \in {"set_all_fans_speed", "set_all_fans_auto"}
  /\ last.via \in {"facade", "gateway"}
  /\ last.exc.cls = "none"

\* The fans the vendor writes of the last operation addressed.
FansWritten == {last.log[i].a : i \in 1 .. Len(last.log)}

\* C34: set_all_fans_speed and set_all_fans_auto, on the facade as on the
\* gateway, apply the single-fan operation to the fans 0 .. max(1, count) - 1,
\* count being what get_fan_count gave (the device's number of fans, or 0
\* when the read failed): fan 0 is written in every case.
C34_AtLeastFanZero ==
  AllFansDone =>
    /\ 0 \in FansWritten
    /\ \E count \in {0, dev.nfans} : FansWritten = 0 .. (Max(1, count) - 1)

(***************************************************************************)
(* set_clock_offsets with one component given                              *)
(***************************************************************************)
\* The step is a set_clock_offsets call, on the facade or through the
\* gateway, that returned.
OffsetsCallReturned ==
  /\ last'.op = "set_clock_offsets" /\ last'.via \in {"facade", "gateway"}
  /\ last'.exc.cls = "none"

\* The value the call wrote with the vendor write c.
WrittenBy(c) ==
  {last'.log[i].a : i \in {j \in 1 .. Len(last'.log) : last'.log[j].call = c}}

\* C35: a set_clock_offsets call given only one component writes, for the
\* other one, the value the device holds at the call, so that the device keeps
\* it: core alone leaves the memory offset as it was, memory alone leaves the
\* core offset as it was.
C35_OtherComponentKept ==
  [][OffsetsCallReturned =>
       /\ ~last'.req.mem.some =>
            (WrittenBy("SetMemClkVfOffset") = {dev.mem} /\ dev'.mem = dev.mem)
       /\ ~last'.req.core.some =>
            (WrittenBy("SetGpcClkVfOffset") = {dev.core} /\ dev'.core = dev.core)]_vars

(***************************************************************************)
(* Two names kept in one file                                              *)
(***************************************************************************)
\* data.get("name", path.stem) of the file kept under k
ListedName(store, k) == DictGet(store[k], "name", k)

\* list_profiles: the names in the files that can be read as JSON; a file
\* that cannot is skipped.  The sorted list returned is given by how many
\* times each name is in it.
list_profiles(w) ==
  LET readable == {k \in DOMAIN w.fs.store :
                     ~Broken(w, "open_r") /\ IsJson(w.fs.store[k])}
      names == {ListedName(w.fs.store, k) : k \in readable}
  IN [w EXCEPT !.ret =
                 <<[n \in names |->
                      Cardinality({k \in readable : ListedName(w.fs.store, k) = n})]>>,
               !.caught = IF readable = DOMAIN w.fs.store THEN @
                          ELSE [cls |-> "OSError", msg |-> "open_r"]]

ProfileLoad(Names, Pl) ==
  /\ \E name \in Names, plan \in Pl :
       \E w \in {load_profile(NewWorld("manager", plan), name)} :
         /\ fs' = w.fs
         /\ ui' = ui
         /\ last' = Completed("load_profile", "manager", <<name>>, w)
  /\ dev' = dev

ProfileList(Pl) ==
  /\ \E plan \in Pl :
       \E w \in {list_profiles(NewWorld("manager", plan))} :
         /\ fs' = w.fs
         /\ ui' = ui
         /\ last' = Completed("list_profiles", "manager", <<>>, w)
  /\ dev' = dev

ReadPlans == {NoFault, [NoFault EXCEPT !.broken = {"open_r"}]}

NextShared ==
  \/ ProfileSave(StoreProfiles, StorePlans)
  \/ ProfileLoad(StoreNames, ReadPlans)
  \/ ProfileList(ReadPlans)
  \/ ProfileDelete(StoreNames, StorePlans)

SpecShared == InitStore /\ [][NextShared]_vars

\* "OC" and "oc" differ and are both kept in oc.json.
Colliding == {<<"O", "C">>, <<"o", "c">>}
SharedKey == <<"o", "c">>
SharedStored == SharedKey \in DOMAIN fs.store /\ IsJson(fs.store[SharedKey])

\* How many times the name is in the list returned.
CopiesIn(listed, n) == IF n \in DOMAIN listed THEN listed[n] ELSE 0

\* C36: the names "OC" and "oc" share the record oc.json.  A save under
\* either name that meets no I/O failure returns True and puts its profile in
\* the place of whatever the record held (no other file is added or changed);
\* a load of either name returns what the record holds, the profile saved
\* last; list_profiles lists the name saved last once and the other name not
\* at all; a delete of either name that meets no I/O failure removes the
\* record.
C36_LastWriterWins ==
  [][/\ (last'.op = "save_profile" /\ last'.req[1].name \in Colliding
          /\ last'.caught.cls = "none") =>
          /\ last'.status = "True" /\ last'.exc.cls = "none"
          /\ fs'.store = StorePut(fs.store, SharedKey,
                                  JsonDump(Stamped(last'.req[1], fs'.clock)))
          /\ fs'.store[SharedKey].name = last'.req[1].name
     /\ (last'.op = "load_profile" /\ last'.req[1] \in Colliding
          /\ SharedStored /\ last'.caught.cls = "none") =>
          /\ last'.ret = <<from_dict(fs.store[SharedKey])>>
          /\ fs' = fs
     /\ (last'.op = "list_profiles" /\ last'.caught.cls = "none") =>
          /\ \A n \in Colliding :
               CopiesIn(last'.ret[1], n) =
                 (IF SharedStored /\ ListedName(fs.store, SharedKey) = n
                    THEN 1 ELSE 0)
          /\ fs' = fs
     /\ (last'.op = "delete_profile" /\ last'.req[1] \in Colliding
          /\ SharedKey \in DOMAIN fs.store /\ last'.caught.cls = "none") =>
          /\ last'.status = "True"
          /\ fs'.store = StoreRemove(fs.store, SharedKey)]_vars

\* C36 happens: the one record of the store was saved under "oc" last, and a
\* load of "OC" returned that profile, named "oc".
C36_Witness ==
  /\ last.op = "load_profile" /\ last.req = <<(<<"O", "C">>)>>
  /\ last.ret # <<>>
  /\ last.ret[1].name = <<"o", "c">>
  /\ last.ret[1].created_at # <<>>
  /\ DOMAIN fs.store = {SharedKey}

(***************************************************************************)
(* Reset to stock under the thermal guard                                  *)
(***************************************************************************)
\* The step is a reset: reset_clock_offsets on the facade or through the
\* gateway, or a run of the helper's reset-clocks.
ResetRun ==
  \/ last'.op = "reset_clock_offsets" /\ last'.via \in {"facade", "gateway"}
  \/ last'.op = "reset-clocks" /\ last'.via = "helper"

\* The reset ended in a failure: an exception for the caller, and for the
\* helper a non-zero exit with an error object.
ResetFailed ==
  /\ last'.exc.cls # "none"
  /\ last'.via = "helper" =>
       /\ last'.exited /\ last'.code # 0
       /\ Len(last'.stdout) = 1 /\ ~last'.stdout[1].success

ZeroWrites(owner) ==
  <<[call |-> "SetGpcClkVfOffset", a |-> 0, b |-> 0, owner |-> owner],
    [call |-> "SetMemClkVfOffset", a |-> 0, b |-> 0, owner |-> owner]>>

\* C37: a reset to stock at a temperature at or above the critical one
\* fails, writes nothing and leaves both offsets as they were; a reset that
\* returns was made below the critical temperature and has written 0 for the
\* core and 0 for the memory offset, which the device then holds.
C37_ResetGuarded ==
  [][ResetRun =>
       /\ dev.temp >= CRITICAL_TEMP_CELSIUS =>
            /\ ResetFailed
            /\ last'.log = <<>>
            /\ dev'.core = dev.core /\ dev'.mem = dev.mem
       /\ last'.exc.cls = "none" =>
            /\ dev.temp < CRITICAL_TEMP_CELSIUS
            /\ last'.log = ZeroWrites(IF last'.via = "facade" THEN "direct" ELSE "helper")
            /\ dev'.core = 0 /\ dev'.mem = 0]_vars

\* C37 happens: at the critical temperature the helper's reset-clocks was
\* refused with the thermal error and the device still holds the overclock.
C37_Witness ==
  /\ last.op = "reset-clocks" /\ last.via = "helper"
  /\ dev.temp >= CRITICAL_TEMP_CELSIUS
  /\ last.exited /\ last.code # 0
  /\ last.stdout = <<JsonError("GPU temperature too high")>>
  /\ dev.core = MAX_CORE_CLOCK_OFFSET_MHZ /\ dev.mem # 0
  /\ last.log = <<>>

(***************************************************************************)
(* The ramp inside the hysteresis band                                     *)
(***************************************************************************)
\* The speeds a manual apply before the curve can have left as commanded.
RampStarts == {None, Some(40), Some(100)}

RampPlans ==
  {NoFault, [NoFault EXCEPT !.broken = {"temperature"}],
   [NoFault EXCEPT !.elevAt = 1, !.elevKind = "dismissed"]}

\* The curve page is shown, at 60 degrees; the ramp step is the default or
\* one that does not divide the distances.
InitRamp ==
  /\ dev = [InitDevice(1) EXCEPT !.temp = 60]
  /\ fs = NoFiles
  /\ \E c \in RampStarts, step \in {5, 7} :
       ui = [NoUi EXCEPT !.selected = 2,
                         !.config.fan_ramp_step_percent = step,
                         !.state = IF c.some THEN set_mode(@, "manual", c) ELSE @]
  /\ last = NoOp

NextRamp ==
  \/ CurveIteration(RampPlans)
  \/ FansApplyCurve({(30 :> 30) @@ (70 :> 65) @@ (90 :> 100)})
  \/ FansStopCurve({NoFault})
  \/ TempChange(HysteresisTemps)

SpecRamp == InitRamp /\ [][NextRamp]_vars

\* _run_loop: a running loop iterates again and again.
SpecRampFair ==
  /\ SpecRamp
  /\ ([]<>~ui.daemon.running \/ []<><<CurveIteration(RampPlans)>>_vars)

\* The loop runs, and the temperature is inside the hysteresis band of the
\* last recomputation, whose target is kept.
InsideBand ==
  /\ ui.daemon.running
  /\ ui.daemon.last_curve_temp.some /\ ui.daemon.last_target_speed.some
  /\ Abs(dev.temp - ui.daemon.last_curve_temp.v) < ui.config.fan_hysteresis_celsius

\* The step is an iteration of the loop whose fan write succeeded.
IterationWrote ==
  /\ last'.op = "update_fan_from_curve"
  /\ last'.calls # <<>> /\ last'.caught.cls = "none"

\* Every iteration step writes successfully.
IterationsWrite == last'.op = "update_fan_from_curve" => IterationWrote

Toward(current, target, by) ==
  IF target > current THEN current + by
  ELSE IF target < current THEN current - by
  ELSE current

AtTarget ==
  ui.state.commanded_speed.some /\ ui.state.commanded_speed = ui.daemon.last_target_speed

\* C38: an iteration inside the hysteresis band whose write succeeds, with a
\* positive ramp step, commands the speed commanded last moved toward the
\* kept target by min(step, remaining distance), never past the target; and
\* once the temperature stays inside the band and the writes succeed, the
\* commanded speed reaches the target and stays equal to it.
C38_RampReachesTarget ==
  /\ [][(InsideBand /\ IterationWrote /\ ui.state.commanded_speed.some
          /\ ui.config.fan_ramp_step_percent > 0) =>
          /\ ui'.daemon.last_target_speed = ui.daemon.last_target_speed
          /\ ui'.state.commanded_speed =
               Some(Toward(ui.state.commanded_speed.v, ui.daemon.last_target_speed.v,
                           Min(ui.config.fan_ramp_step_percent,
                               Abs(ui.daemon.last_target_speed.v
                                     - ui.state.commanded_speed.v))))
          /\ LoopCommanded(last') = ui'.state.commanded_speed.v]_vars
  /\ (<>[]InsideBand /\ <>[][IterationsWrite]_vars) => <>[]AtTarget

\* C38 happens: from 40 the loop has ramped in steps of 5 to 55, one short of
\* the target 56 kept inside the band.
C38_Witness ==
  /\ InsideBand
  /\ last.op = "update_fan_from_curve" /\ Len(last.ret) = 1
  /\ last.caught.cls = "none"
  /\ ui.config.fan_ramp_step_percent = 5
  /\ ui.daemon.last_target_speed = Some(56)
  /\ ui.state.commanded_speed = Some(55)

(***************************************************************************)
(* FanCurveDaemon.start on a daemon whose loop is running                  *)
(***************************************************************************)
\* start(curve), lines 76-83.  A running daemon is stopped first: a thread
\* that sleeps or is ready leaves the loop and is joined; a thread inside a
\* write outlives join(timeout=3.0) and stays.  Then the curve is stored,
\* _running set, the event cleared and a new thread started.  The attributes
\* _last_curve_temp and _last_target_speed of the object stay.
start(w, curve) ==
  [w EXCEPT !.ui.previous =
              @ \o (IF w.ui.daemon.running /\ w.ui.daemon.pc = "writing"
                      THEN <<[pc |-> "writing", pending |-> w.ui.daemon.pending]>>
                      ELSE <<>>),
            !.ui.state.curve = curve,
            !.ui.daemon.running = TRUE,
            !.ui.daemon.pc = "ready"]

\* start() is called on the daemon while its loop runs.
DaemonStart(Curves) ==
  /\ ui.daemon.running
  /\ ui.daemon.pc = "writing" => Len(ui.previous) < MaxStale
  /\ \E curve \in Curves :
       \E w \in {NewWorld("gateway", NoFault)} :
         ThreadStep("start", "daemon", <<curve>>, start(w, curve))

\* The write of an earlier thread comes back; the thread goes on to
\* _stop_event.wait.
PreviousEnd(Pl) ==
  \E i \in 1 .. Len(ui.previous), plan \in Pl :
    /\ ui.previous[i].pc = "writing"
    /\ \E w \in {NewWorld("gateway", plan)} :
         ThreadStep("finish_iteration", "previous", <<ui.previous[i].pending>>,
                    finish_write([w EXCEPT !.ui.previous[i].pc = "sleeping"],
                                 ui.previous[i].pending))

\* The wait of an earlier thread ends and it makes the test of its while
\* loop, "self._running and not self._stop_event.is_set()", on the flags it
\* shares with the daemon's present thread.
PreviousWake ==
  /\ \E i \in 1 .. Len(ui.previous) :
       /\ ui.previous[i].pc = "sleeping"
       /\ ui' = IF ui.daemon.running
                  THEN [ui EXCEPT !.previous[i].pc = "ready"]
                  ELSE [ui EXCEPT !.previous = RemoveAt(@, i)]
  /\ UNCHANGED <<dev, fs, last>>

\* An earlier thread runs an iteration up to its write.
PreviousBegin(Pl) ==
  \E i \in 1 .. Len(ui.previous), plan \in Pl :
    /\ ui.previous[i].pc = "ready"
    /\ \E w \in {begin_iteration(NewWorld("gateway", plan))} :
         ThreadStep("begin_iteration", "previous", <<>>,
                    [w EXCEPT !.ui.daemon.pc = ui.daemon.pc,
                              !.ui.daemon.pending = ui.daemon.pending,
                              !.ui.previous[i] = [pc |-> w.ui.daemon.pc,
                                                  pending |-> w.ui.daemon.pending]])

RestartCurves == {(30 :> 30) @@ (70 :> 65) @@ (90 :> 100), (40 :> 80) @@ (60 :> 35)}

InitRestart ==
  /\ dev = [InitDevice(1) EXCEPT !.temp = 50]
  /\ fs = NoFiles
  /\ ui = [NoUi EXCEPT !.selected = 2]
  /\ last = NoOp

NextRestart ==
  \/ LoopTick
  \/ IterationBegin(BeginPlans)
  \/ IterationEnd(ThreadPlans)
  \/ FansApplyCurve(RestartCurves)
  \/ DaemonStart(RestartCurves)
  \/ PreviousEnd(ThreadPlans)
  \/ PreviousWake
  \/ PreviousBegin(BeginPlans)
  \/ FansStopCurve({NoFault})
  \/ StaleIterationEnd({NoFault})

SpecRestart == InitRestart /\ [][NextRestart]_vars

\* C39: once start() has returned, a thread that an earlier start() of the
\* daemon created performs no iteration beyond the one that was in flight: it
\* never passes the test of its loop again and never begins an iteration.
C39_PreviousLoopEnds ==
  /\ \A i \in 1 .. Len(ui.previous) : ui.previous[i].pc # "ready"
  /\ ~(last.via = "previous" /\ last.op = "begin_iteration")

====
